---- MODULE Spec2Model ----
(***************************************************************************)
(* ResearchVault (visual-info): the ingestion pipeline of utils.ts          *)
(* (generateId, looseParse, parseRawJson) and the collection repair pass    *)
(* of the App component (sanitizeData), and the App component's loading     *)
(* and saving of the collection against localStorage and server.js.         *)
(*                                                                          *)
(* JavaScript values are tagged records; a text is a sequence of lexemes,   *)
(* the units that no string operation of the program splits.                *)
(***************************************************************************)
EXTENDS Integers, Sequences, FiniteSets, TLC

VARIABLES
    hasCrypto,      \* typeof crypto !== 'undefined' && crypto.randomUUID
    now,            \* Date.now()
    uniqueCounter,  \* utils.ts: let uniqueCounter
    stored,         \* the persisted collection handed to sanitizeData
    sheets,         \* App state: sheets
    phase,          \* position of the running scenario
    issued,         \* observation: every generateId call of the last pass
    input,          \* parseRawJson's argument
    parsed,         \* parseRawJson: parsed
    rawPapers,      \* parseRawJson: rawPapers
    result,         \* parseRawJson's return value
    raised,         \* whether parseRawJson let an exception escape
    effects,        \* side effects performed by evaluated input
    parseLog,       \* observation: the parse attempts, in order
    server,         \* server.js: the text of DATA_FILE
    local,          \* localStorage.getItem(LOCAL_STORAGE_KEY)
    isInitialized,  \* App state: isInitialized
    isOfflineMode,  \* App state: isOfflineMode
    timer,          \* the pending timeout of the auto-save effect, if any
    inflight,       \* POST /api/data requests sent and not yet handled
    edits           \* number of user operations performed

vars == <<hasCrypto, now, uniqueCounter, stored, sheets, phase, issued,
          input, parsed, rawPapers, result, raised, effects, parseLog,
          server, local, isInitialized, isOfflineMode, timer, inflight, edits>>

repairVars == <<stored, sheets, issued>>
parseVars == <<input, parsed, rawPapers, result, raised, effects, parseLog>>
appVars == <<server, local, isInitialized, isOfflineMode, timer, inflight, edits>>

-----------------------------------------------------------------------------
(* Bounds of the model *)

MaxSheets == 2
MaxRecords == 3
MaxData == 2
MaxEmbedded == 2
MaxLinks == 3
MaxCalls == 4
MaxEdits == 2

(* Program constants *)

CounterModulus == 9999

-----------------------------------------------------------------------------
(* JavaScript values *)

Undef == [t |-> "undef"]
Null == [t |-> "null"]
Bool(b) == [t |-> "bool", v |-> b]
Num(n) == [t |-> "num", v |-> n]
Str(x) == [t |-> "str", v |-> x]
Arr(s) == [t |-> "arr", v |-> s]
Obj(f) == [t |-> "obj", v |-> f]

NoFields == [k \in {} |-> Undef]

IsArray(x) == x.t = "arr"
IsString(x) == x.t = "str"
IsObject(x) == x.t = "obj"

\* a property name: the text of one lexeme
Key(k) == <<k>>

\* x.k on a value that is neither null nor undefined
Get(x, k) ==
    IF x.t = "obj" /\ Key(k) \in DOMAIN x.v THEN x.v[Key(k)] ELSE Undef

\* { ...x, k: val }
With(x, k, val) ==
    LET f == IF x.t = "obj" THEN x.v ELSE NoFields
    IN  Obj([j \in (DOMAIN f) \cup {Key(k)} |-> IF j = Key(k) THEN val ELSE f[j]])

\* x with field k removed
Without(x, k) ==
    Obj([j \in (DOMAIN x.v) \ {Key(k)} |-> x.v[j]])

\* ToBoolean
Truthy(x) ==
    CASE x.t = "undef" -> FALSE
      [] x.t = "null" -> FALSE
      [] x.t = "bool" -> x.v
      [] x.t = "num" -> x.v # 0
      [] x.t = "str" -> x.v # <<>>
      [] OTHER -> TRUE

-----------------------------------------------------------------------------
(* Texts *)

Digits == <<"0", "1", "2", "3", "4", "5", "6", "7", "8", "9">>
Digits36 == Digits \o <<"a", "b", "c", "d", "e", "f", "g", "h", "i", "j",
                        "k", "l", "m", "n", "o", "p", "q", "r", "s", "t",
                        "u", "v", "w", "x", "y", "z">>

RECURSIVE ToRadix(_, _, _)
ToRadix(n, base, table) ==
    IF n < base THEN <<table[n + 1]>>
    ELSE ToRadix(n \div base, base, table) \o <<table[(n % base) + 1]>>

\* Number.prototype.toString(), naturals only
ToDecimal(n) == ToRadix(n, 10, Digits)
\* Number.prototype.toString(36), naturals only
ToString36(n) == ToRadix(n, 36, Digits36)

IsSpace(c) == c \in {" ", "\t", "\n"}

RECURSIVE TrimStart(_)
TrimStart(x) ==
    IF x # <<>> /\ IsSpace(Head(x)) THEN TrimStart(Tail(x)) ELSE x

RECURSIVE TrimEnd(_)
TrimEnd(x) ==
    IF x # <<>> /\ IsSpace(x[Len(x)]) THEN TrimEnd(SubSeq(x, 1, Len(x) - 1))
    ELSE x

\* String.prototype.trim
Trim(x) == TrimEnd(TrimStart(x))

RECURSIVE JoinTexts(_, _)
JoinTexts(xs, sep) ==
    IF xs = <<>> THEN <<>>
    ELSE IF Len(xs) = 1 THEN Head(xs)
    ELSE Head(xs) \o sep \o JoinTexts(Tail(xs), sep)

\* String(x)
RECURSIVE ToText(_)
ToText(x) ==
    CASE x.t = "str" -> x.v
      [] x.t = "num" -> ToDecimal(x.v)
      [] x.t = "bool" -> IF x.v THEN <<"true">> ELSE <<"false">>
      [] x.t = "null" -> <<"null">>
      [] x.t = "undef" -> <<"undefined">>
      [] x.t = "arr" ->
            JoinTexts([i \in 1..Len(x.v) |->
                          IF x.v[i].t \in {"null", "undef"} THEN <<>>
                          ELSE ToText(x.v[i])], <<",">>)
      [] OTHER -> <<"[object Object]">>

-----------------------------------------------------------------------------
(* Identity: generateId *)

\* what the platform's random sources can return
RandomPool == {"u1", "u2"}

\* crypto.randomUUID() with random outcome r
RandomUUID(r) == <<r>>
\* Math.random().toString(36).substr(2, 9) with random outcome r
RandomSuffix(r) == <<r>>

\* generateId whose fallback counter is not reduced modulo 9999
GenerateIdUnreduced(counter, r) ==
    IF hasCrypto
    THEN [id |-> RandomUUID(r), counter |-> counter]
    ELSE [id |-> <<"id_">> \o ToString36(now) \o <<"_">>
                    \o ToDecimal(counter + 1) \o <<"_">> \o RandomSuffix(r),
          counter |-> counter + 1]

\* generateId with the counter at `counter` and random outcome r:
\* the identifier returned and the counter left behind
GenerateId(counter, r) ==
    IF hasCrypto
    THEN [id |-> RandomUUID(r), counter |-> counter]
    ELSE LET c == (counter + 1) % CounterModulus
         IN  [id |-> <<"id_">> \o ToString36(now) \o <<"_">> \o ToDecimal(c)
                        \o <<"_">> \o RandomSuffix(r),
              counter |-> c]

-----------------------------------------------------------------------------
(* Tolerant deserializer: JSON.parse and looseParse                         *)
(*                                                                          *)
(* Both read a text lexeme by lexeme.  The strict reader accepts the JSON   *)
(* grammar.  The loose reader is the evaluation of the text as a JavaScript *)
(* expression: it also accepts single-quoted strings, unquoted keys, a      *)
(* trailing comma and raw tabs in strings, reads the identifier undefined,  *)
(* performs the calls it meets, and throws on an unbound identifier.        *)

IsDigit(c) == \E d \in 1..10 : Digits[d] = c
DigitValue(c) == (CHOOSE d \in 1..10 : Digits[d] = c) - 1

\* lexemes that are JavaScript identifier names
Identifiers ==
    {"data", "output", "Título", "Año", "Etiquetas", "note", "url", "link",
     "URL", "href", "doi", "oops"}
\* identifiers bound in the global scope: none of the above
BoundIdentifiers == {}
\* lexemes that are call expressions on global objects; evaluating one
\* performs the call and yields undefined
CallLexemes == {"localStorage.clear()"}

\* the outcome of reading a value off the front of a text: whether the text
\* is well formed so far, the value, the rest of the text, the calls that
\* evaluating it performs and whether evaluating it throws
Read(val, rest, fx, thrown) ==
    [ok |-> TRUE, val |-> val, rest |-> rest, fx |-> fx, thrown |-> thrown]
Malformed ==
    [ok |-> FALSE, val |-> Undef, rest |-> <<>>, fx |-> <<>>, thrown |-> FALSE]

SkipSpace(ts) == TrimStart(ts)

RECURSIVE ReadNumber(_, _)
ReadNumber(ts, acc) ==
    IF ts # <<>> /\ IsDigit(Head(ts))
    THEN ReadNumber(Tail(ts), 10 * acc + DigitValue(Head(ts)))
    ELSE Read(Num(acc), ts, <<>>, FALSE)

\* the string literal whose opening quote q has been read
RECURSIVE ReadString(_, _, _, _)
ReadString(ts, q, loose, acc) ==
    IF ts = <<>> THEN Malformed
    ELSE LET h == Head(ts)
         IN  IF h = q THEN Read(Str(acc), Tail(ts), <<>>, FALSE)
             ELSE IF h = "\n" THEN Malformed
             ELSE IF h = "\t" /\ ~loose THEN Malformed
             ELSE IF h = "\\\"" THEN ReadString(Tail(ts), q, loose, Append(acc, "\""))
             ELSE ReadString(Tail(ts), q, loose, Append(acc, h))

\* a property name
ReadKey(ts, loose) ==
    IF ts = <<>> THEN Malformed
    ELSE LET h == Head(ts)
         IN  IF h = "\"" THEN ReadString(Tail(ts), "\"", loose, <<>>)
             ELSE IF ~loose THEN Malformed
             ELSE IF h = "'" THEN ReadString(Tail(ts), "'", loose, <<>>)
             ELSE IF h \in Identifiers THEN Read(Str(<<h>>), Tail(ts), <<>>, FALSE)
             ELSE IF IsDigit(h)
                  THEN LET n == ReadNumber(ts, 0)
                       IN  Read(Str(ToDecimal(n.val.v)), n.rest, <<>>, FALSE)
             ELSE Malformed

\* `so` then `e`: evaluation goes left to right and stops at the first throw
Then(so, e, val) ==
    Read(val, e.rest,
         IF so.thrown THEN so.fx ELSE so.fx \o e.fx,
         so.thrown \/ e.thrown)

\* One reader for the three places of the grammar:
\*   "value":   a value at the front of the text;
\*   "items":   the elements of an array literal whose "[" has been read;
\*   "members": the members of an object literal whose "{" has been read
\*              (a repeated key overrides).
\* `so` is what has been read of the literal so far; `first`: nothing yet.
RECURSIVE ReadPart(_, _, _, _, _)
ReadPart(part, ts0, loose, so, first) ==
    LET ts == SkipSpace(ts0)
        h == Head(ts)
        rest == Tail(ts)
        close == IF part = "items" THEN "]" ELSE "}"
        k == IF part = "members" THEN ReadKey(ts, loose)
             ELSE Read(Undef, ts, <<>>, FALSE)
        colon == SkipSpace(k.rest)
        e == ReadPart("value",
                      IF part = "members" THEN Tail(colon) ELSE ts,
                      loose, so, TRUE)
        after == SkipSpace(e.rest)
        got == Then(so, e,
                    IF part = "items" THEN Arr(Append(so.val.v, e.val))
                    ELSE Obj([j \in (DOMAIN so.val.v) \cup {k.val.v} |->
                                 IF j = k.val.v THEN e.val ELSE so.val.v[j]]))
    IN  IF ts = <<>> THEN Malformed
        ELSE IF part = "value"
        THEN CASE h = "[" -> ReadPart("items", rest, loose,
                                      Read(Arr(<<>>), rest, <<>>, FALSE), TRUE)
               [] h = "{" -> ReadPart("members", rest, loose,
                                      Read(Obj(NoFields), rest, <<>>, FALSE), TRUE)
               [] h = "\"" -> ReadString(rest, "\"", loose, <<>>)
               [] h = "null" -> Read(Null, rest, <<>>, FALSE)
               [] h = "true" -> Read(Bool(TRUE), rest, <<>>, FALSE)
               [] h = "false" -> Read(Bool(FALSE), rest, <<>>, FALSE)
               [] IsDigit(h) -> ReadNumber(ts, 0)
               [] loose /\ h = "'" -> ReadString(rest, "'", loose, <<>>)
               [] loose /\ h = "undefined" -> Read(Undef, rest, <<>>, FALSE)
               [] loose /\ h \in CallLexemes -> Read(Undef, rest, <<h>>, FALSE)
               [] loose /\ h \in Identifiers \ BoundIdentifiers ->
                     Read(Undef, rest, <<>>, TRUE)
               [] OTHER -> Malformed
        ELSE IF h = close
        THEN IF first \/ loose THEN [so EXCEPT !.rest = rest] ELSE Malformed
        ELSE IF part = "members" /\ (~k.ok \/ colon = <<>> \/ Head(colon) # ":")
        THEN Malformed
        ELSE IF ~e.ok \/ after = <<>> THEN Malformed
        ELSE IF Head(after) = "," THEN ReadPart(part, Tail(after), loose, got, FALSE)
        ELSE IF Head(after) = close THEN [got EXCEPT !.rest = Tail(after)]
        ELSE Malformed

\* a value at the front of the text
ReadValue(text, loose) == ReadPart("value", text, loose, Malformed, TRUE)

\* JSON.parse(text): the value, or ok = FALSE for a SyntaxError
Parsed(r) == [ok |-> r.ok /\ SkipSpace(r.rest) = <<>>, val |-> r.val]
JsonParse(text) == Parsed(ReadValue(text, FALSE))

\* looseParse(text): new Function('"use strict";return (' + input + ')')().
\* ok = FALSE when it throws; fx: the calls the evaluation performed.
Evaluated(r) ==
    LET compiles == r.ok /\ SkipSpace(r.rest) = <<>>
    IN  [ok |-> compiles /\ ~r.thrown,
         val |-> r.val,
         fx |-> IF compiles THEN r.fx ELSE <<>>]
LooseParse(text) == Evaluated(ReadValue(text, TRUE))

-----------------------------------------------------------------------------
(* parseRawJson: the two parse attempts *)

Attempt(how, text, ok) == [how |-> how, text |-> text, ok |-> ok]

\* the two attempts the other way round: looseParse first, JSON.parse on its
\* failure
LooseThenStrict(text, strict, loose) ==
    IF loose.ok
    THEN [ok |-> TRUE, val |-> loose.val, fx |-> loose.fx,
          log |-> <<Attempt("loose", text, TRUE)>>]
    ELSE [ok |-> strict.ok, val |-> strict.val, fx |-> loose.fx,
          log |-> <<Attempt("loose", text, FALSE),
                    Attempt("strict", text, strict.ok)>>]

\* try { JSON.parse(input) } catch { try { looseParse(input) } catch { .. } }:
\* the value, the calls performed and the attempts made, in order
StrictThenLoose(text, strict, loose) ==
    IF strict.ok
    THEN [ok |-> TRUE, val |-> strict.val, fx |-> <<>>,
          log |-> <<Attempt("strict", text, TRUE)>>]
    ELSE [ok |-> loose.ok, val |-> loose.val, fx |-> loose.fx,
          log |-> <<Attempt("strict", text, FALSE),
                    Attempt("loose", text, loose.ok)>>]
DecodeInput(text) == StrictThenLoose(text, JsonParse(text), LooseParse(text))

\* the same two attempts on the string of an output field
DecodeOutput(text) == StrictThenLoose(text, JsonParse(text), LooseParse(text))

-----------------------------------------------------------------------------
(* parseRawJson: traverse *)

\* what a part of the walk yields: the candidates appended to rawPapers, the
\* calls performed, the parse attempts made, and whether it threw
Yield(raw, fx, log, threw) ==
    [raw |-> raw, fx |-> fx, log |-> log, threw |-> threw]
Nothing == Yield(<<>>, <<>>, <<>>, FALSE)

\* a, then b unless a threw
AndThen(a, b) ==
    IF a.threw THEN a
    ELSE Yield(a.raw \o b.raw, a.fx \o b.fx, a.log \o b.log, b.threw)

\* the output rule without its try/catch: a string that does not decode
\* throws out of the walk
\* the decoded array pushed as one candidate instead of being spread
SpreadWhole(d, threw) ==
    Yield(IF d.ok /\ IsArray(d.val) THEN <<d.val>> ELSE <<>>, d.fx, d.log, threw)
\* if (Array.isArray(innerJson)) rawPapers = [...rawPapers, ...innerJson]
Spread(d, threw) ==
    Yield(IF d.ok /\ IsArray(d.val) THEN d.val.v ELSE <<>>, d.fx, d.log, threw)
Uncaught(d) == Spread(d, ~d.ok)
EmbeddedOutputUncaught(node) ==
    IF IsString(Get(node, "output"))
    THEN Uncaught(DecodeOutput(Get(node, "output").v))
    ELSE Nothing

\* if (typeof node.output === 'string') { try { ... } catch (e) { } }
EmbeddedOutput(node) ==
    IF IsString(Get(node, "output"))
    THEN Spread(DecodeOutput(Get(node, "output").v), FALSE)
    ELSE Nothing

\* the self rule looking at the title only
LooksLikePaperTitleOnly(node) == Truthy(Get(node, "Título"))

\* if (node["Título"] || node["Resumen Ejecutivo"]) rawPapers.push(node)
LooksLikePaper(node) ==
    Truthy(Get(node, "Título")) \/ Truthy(Get(node, "Resumen Ejecutivo"))

RECURSIVE Traverse(_)
RECURSIVE TraverseAll(_)

\* forEach visiting the elements from the last to the first
RECURSIVE TraverseAllBackwards(_)
TraverseAllBackwards(nodes) ==
    IF nodes = <<>> THEN Nothing
    ELSE AndThen(TraverseAllBackwards(Tail(nodes)), Traverse(Head(nodes)))

\* the data rule visiting the first element only
EnvelopeFirstOnly(node) ==
    IF IsArray(Get(node, "data")) /\ Get(node, "data").v # <<>>
    THEN Traverse(Head(Get(node, "data").v))
    ELSE Nothing

\* if (node.data && Array.isArray(node.data)) node.data.forEach(traverse)
Envelope(node) ==
    IF IsArray(Get(node, "data")) THEN TraverseAll(Get(node, "data").v)
    ELSE Nothing

\* the three rules as alternatives: only the first that applies is used
TraverseExclusive(node) ==
    IF ~Truthy(node) THEN Nothing
    ELSE IF IsArray(node) THEN TraverseAll(node.v)
    ELSE IF ~IsObject(node) THEN Nothing
    ELSE IF IsArray(Get(node, "data")) THEN Envelope(node)
    ELSE IF IsString(Get(node, "output")) THEN EmbeddedOutput(node)
    ELSE IF LooksLikePaper(node) THEN Yield(<<node>>, <<>>, <<>>, FALSE)
    ELSE Nothing

Traverse(node) ==
    IF ~Truthy(node) THEN Nothing
    ELSE IF IsArray(node) THEN TraverseAll(node.v)
    ELSE IF IsObject(node)
    THEN AndThen(AndThen(Envelope(node), EmbeddedOutput(node)),
                 IF LooksLikePaper(node)
                 THEN Yield(<<node>>, <<>>, <<>>, FALSE) ELSE Nothing)
    ELSE Nothing

\* nodes.forEach(traverse)
TraverseAll(nodes) ==
    IF nodes = <<>> THEN Nothing
    ELSE AndThen(Traverse(Head(nodes)), TraverseAll(Tail(nodes)))

-----------------------------------------------------------------------------
(* extractLinks *)

\* lexemes that begin with "http", begin with "arXiv", contain "www", ".com"
\* or ".org"
HttpLexemes == {"http://", "https://", "httpbin.org/get"}
ArxivLexemes == {"arXiv:", "arXiv.org/"}
WwwLexemes == {"www."}
DotComLexemes == {".com", "github.com/", "example.com/x"}
DotOrgLexemes == {".org", "arXiv.org/", "httpbin.org/get"}

RECURSIVE NonSpaceRun(_)
\* [^\s]* : how many lexemes it takes
NonSpaceRun(ts) ==
    IF ts = <<>> \/ IsSpace(Head(ts)) THEN 0 ELSE 1 + NonSpaceRun(Tail(ts))

RECURSIVE DigitRun(_)
\* \d* : how many lexemes it takes
DigitRun(ts) ==
    IF ts = <<>> \/ ~IsDigit(Head(ts)) THEN 0 ELSE 1 + DigitRun(Tail(ts))

Drop(ts, n) == SubSeq(ts, n + 1, Len(ts))

\* the length of the match of
\* /(https?:\/\/[^\s]+)|(arXiv:\d+\.\d+)|(github\.com\/[^\s]+)/
\* at the front of ts, 0 when there is none
MatchLength(ts) ==
    LET rest == Tail(ts)
        d1 == DigitRun(rest)
        dot == Drop(rest, d1)
        d2 == IF dot # <<>> /\ Head(dot) = "." THEN DigitRun(Tail(dot)) ELSE 0
    IN  IF Head(ts) \in {"http://", "https://"} /\ NonSpaceRun(rest) >= 1
        THEN 1 + NonSpaceRun(rest)
        ELSE IF Head(ts) = "arXiv:" /\ d1 >= 1 /\ d2 >= 1
        THEN 1 + d1 + 1 + d2
        ELSE IF Head(ts) = "github.com/" /\ NonSpaceRun(rest) >= 1
        THEN 1 + NonSpaceRun(rest)
        ELSE 0

RECURSIVE ExtractLinks(_)
\* text.match(urlRegex) || []
ExtractLinks(text) ==
    IF text = <<>> THEN <<>>
    ELSE LET n == MatchLength(text)
         IN  IF n > 0 THEN <<SubSeq(text, 1, n)>> \o ExtractLinks(Drop(text, n))
             ELSE ExtractLinks(Tail(text))

-----------------------------------------------------------------------------
(* parseRawJson: rawPapers.map *)

\* a || b
OrElse(a, b) == IF Truthy(a) THEN a ELSE b

\* rp["url"] || rp["link"] || rp["URL"] || rp["href"] || rp["doi"]
ExplicitLink(rp) ==
    OrElse(Get(rp, "url"),
           OrElse(Get(rp, "link"),
                  OrElse(Get(rp, "URL"),
                         OrElse(Get(rp, "href"), Get(rp, "doi")))))

Contains(text, lexemes) == \E i \in 1..Len(text) : text[i] \in lexemes
StartsWith(text, lexemes) == text # <<>> /\ Head(text) \in lexemes

\* the explicit link trimmed and, when it looks like a bare domain, given
\* the https scheme
CleanLink(link) ==
    LET cleanLink == Trim(link)
    IN  IF /\ ~StartsWith(cleanLink, HttpLexemes)
           /\ ~StartsWith(cleanLink, ArxivLexemes)
           /\ \/ Contains(cleanLink, WwwLexemes)
              \/ Contains(cleanLink, DotComLexemes)
              \/ Contains(cleanLink, DotOrgLexemes)
        THEN <<"https://">> \o cleanLink
        ELSE cleanLink

RECURSIVE DedupeKeepLast(_)
\* the last occurrence of each, in order
DedupeKeepLast(xs) ==
    IF xs = <<>> THEN <<>>
    ELSE IF \E i \in 2..Len(xs) : xs[i] = Head(xs) THEN DedupeKeepLast(Tail(xs))
    ELSE <<Head(xs)>> \o DedupeKeepLast(Tail(xs))

\* one repeated element removed, the first there is
DedupeOnePass(xs) ==
    LET dups == {j \in 1..Len(xs) : \E i \in 1..(j - 1) : xs[i] = xs[j]}
        first == CHOOSE j \in dups : \A k \in dups : j <= k
    IN  IF dups = {} THEN xs
        ELSE SubSeq(xs, 1, first - 1) \o SubSeq(xs, first + 1, Len(xs))

RECURSIVE Dedupe(_)
\* [...new Set(links)]: the first occurrence of each, in order
Dedupe(xs) ==
    IF xs = <<>> THEN <<>>
    ELSE LET front == Dedupe(SubSeq(xs, 1, Len(xs) - 1))
             last == xs[Len(xs)]
         IN  IF \E i \in 1..Len(front) : front[i] = last THEN front
             ELSE Append(front, last)

\* the links of a candidate, the explicit link pushed at the end
LinksExplicitLast(rp) ==
    LET combinedText ==
            ToText(OrElse(Get(rp, "Resumen Ejecutivo"), Str(<<>>))) \o <<" ">>
               \o ToText(OrElse(Get(rp, "Conclusión/Aporte Clave"), Str(<<>>)))
        found == ExtractLinks(combinedText)
        explicitLink == ExplicitLink(rp)
    IN  Dedupe(IF Truthy(explicitLink) /\ IsString(explicitLink)
               THEN found \o <<CleanLink(explicitLink.v)>>
               ELSE found)

\* the links of a candidate, explicit link first
Links(rp) ==
    LET combinedText ==
            ToText(OrElse(Get(rp, "Resumen Ejecutivo"), Str(<<>>))) \o <<" ">>
               \o ToText(OrElse(Get(rp, "Conclusión/Aporte Clave"), Str(<<>>)))
        found == ExtractLinks(combinedText)
        explicitLink == ExplicitLink(rp)
    IN  Dedupe(IF Truthy(explicitLink) /\ IsString(explicitLink)
               THEN <<CleanLink(explicitLink.v)>> \o found
               ELSE found)

\* reading a property of rp throws a TypeError
NotIndexable(rp) == rp.t \in {"null", "undef"}

\* the record the map callback returns for candidate rp, given its identifier
PaperUndefaulted(rp, id) ==
    Obj(Key("id") :> Str(id)
        @@ Key("title") :> Get(rp, "Título")
        @@ Key("year") :> Get(rp, "Año")
        @@ Key("tags") :> Get(rp, "Etiquetas")
        @@ Key("summary") :> Get(rp, "Resumen Ejecutivo")
        @@ Key("contribution") :> Get(rp, "Conclusión/Aporte Clave")
        @@ Key("userNotes") :> Str(<<>>)
        @@ Key("isImportant") :> Bool(FALSE)
        @@ Key("links") :> Arr([i \in 1..Len(Links(rp)) |-> Str(Links(rp)[i])]))

\* the record with the year kept as the candidate has it, not made text
PaperYearKept(rp, id) ==
    Obj(Key("id") :> Str(id)
        @@ Key("title") :> OrElse(Get(rp, "Título"), Str(<<"Untitled Paper">>))
        @@ Key("year") :> OrElse(Get(rp, "Año"), Str(<<"N/D">>))
        @@ Key("tags") :> (IF IsArray(Get(rp, "Etiquetas"))
                           THEN Get(rp, "Etiquetas") ELSE Arr(<<>>))
        @@ Key("summary") :> OrElse(Get(rp, "Resumen Ejecutivo"),
                                    Str(<<"No summary provided.">>))
        @@ Key("contribution") :> OrElse(Get(rp, "Conclusión/Aporte Clave"),
                                         Str(<<>>))
        @@ Key("userNotes") :> Str(<<>>)
        @@ Key("isImportant") :> Bool(FALSE)
        @@ Key("links") :> Arr([i \in 1..Len(Links(rp)) |-> Str(Links(rp)[i])]))

\* a ?? b
OrElseNullish(a, b) == IF a.t \in {"null", "undef"} THEN b ELSE a

\* the record with defaults given only to absent and null fields
PaperNullish(rp, id) ==
    Obj(Key("id") :> Str(id)
        @@ Key("title") :> OrElseNullish(Get(rp, "Título"), Str(<<"Untitled Paper">>))
        @@ Key("year") :> (IF Get(rp, "Año").t \notin {"null", "undef"}
                           THEN Str(ToText(Get(rp, "Año")))
                           ELSE Str(<<"N/D">>))
        @@ Key("tags") :> (IF IsArray(Get(rp, "Etiquetas"))
                           THEN Get(rp, "Etiquetas") ELSE Arr(<<>>))
        @@ Key("summary") :> OrElseNullish(Get(rp, "Resumen Ejecutivo"),
                                           Str(<<"No summary provided.">>))
        @@ Key("contribution") :> OrElseNullish(Get(rp, "Conclusión/Aporte Clave"),
                                                Str(<<>>))
        @@ Key("userNotes") :> Str(<<>>)
        @@ Key("isImportant") :> Bool(FALSE)
        @@ Key("links") :> Arr([i \in 1..Len(Links(rp)) |-> Str(Links(rp)[i])]))

Paper(rp, id) ==
    Obj(Key("id") :> Str(id)
        @@ Key("title") :> OrElse(Get(rp, "Título"), Str(<<"Untitled Paper">>))
        @@ Key("year") :> (IF Truthy(Get(rp, "Año"))
                           THEN Str(ToText(Get(rp, "Año")))
                           ELSE Str(<<"N/D">>))
        @@ Key("tags") :> (IF IsArray(Get(rp, "Etiquetas"))
                           THEN Get(rp, "Etiquetas") ELSE Arr(<<>>))
        @@ Key("summary") :> OrElse(Get(rp, "Resumen Ejecutivo"),
                                    Str(<<"No summary provided.">>))
        @@ Key("contribution") :> OrElse(Get(rp, "Conclusión/Aporte Clave"),
                                         Str(<<>>))
        @@ Key("userNotes") :> Str(<<>>)
        @@ Key("isImportant") :> Bool(FALSE)
        @@ Key("links") :> Arr([i \in 1..Len(Links(rp)) |-> Str(Links(rp)[i])]))

\* rawPapers.map(...) from candidate k on: the records built, the counter left
\* behind, and whether a callback threw
RECURSIVE MapPapers(_, _, _, _)
MapPapers(raw, k, counter, rnd) ==
    IF k > Len(raw) THEN [papers |-> <<>>, counter |-> counter, threw |-> FALSE]
    ELSE IF NotIndexable(raw[k])
    THEN [papers |-> <<>>, counter |-> counter, threw |-> TRUE]
    ELSE LET g == GenerateId(counter, rnd[k])
             r == MapPapers(raw, k + 1, g.counter, rnd)
         IN  [papers |-> <<Paper(raw[k], g.id)>> \o r.papers,
              counter |-> r.counter, threw |-> r.threw]

\* what a catch block of parseRawJson does: the value returned, and whether
\* the exception goes on to the caller
OnParseFailureRethrow == [result |-> <<>>, raised |-> TRUE]
\* catch (e2) { console.error(...); return []; }
OnParseFailure == [result |-> <<>>, raised |-> FALSE]
\* catch (error) { console.error(...); return []; }
OnMappingError == [result |-> <<>>, raised |-> FALSE]

-----------------------------------------------------------------------------
(* Repair pass: sanitizeData *)

\* The walk's state: the seen-set, the module counter, and the generateId
\* calls made so far (observation only: the code keeps no such list).
WalkStart(counter) ==
    [seenIds |-> {}, counter |-> counter, calls |-> <<>>]

\* String(p.id) kept as stored
CurrentIdUntrimmed(p) ==
    IF Truthy(Get(p, "id")) THEN ToText(Get(p, "id")) ELSE <<>>

\* p.id ? String(p.id).trim() : undefined   (<<>> stands for undefined:
\* both are falsy in the test that follows)
CurrentId(p) ==
    IF Truthy(Get(p, "id")) THEN Trim(ToText(Get(p, "id"))) ELSE <<>>

\* the record rebuilt from its identifier alone, its other fields not copied
SanitizePaperIdOnly(p, st, rnd) ==
    LET currentId == CurrentId(p)
        regen == currentId = <<>> \/ currentId \in st.seenIds
        g == GenerateId(st.counter, rnd[Len(st.calls) + 1])
        finalId == IF regen THEN g.id ELSE currentId
    IN  [paper |-> Obj(Key("id") :> Str(finalId)),
         st |-> [seenIds |-> st.seenIds \cup {finalId},
                 counter |-> IF regen THEN g.counter ELSE st.counter,
                 calls |-> IF regen
                           THEN Append(st.calls,
                                       [id |-> g.id,
                                        clash |-> g.id \in st.seenIds])
                           ELSE st.calls]]

\* every record given a generated identifier, whatever it had
SanitizePaperAlwaysFresh(p, st, rnd) ==
    LET g == GenerateId(st.counter, rnd[Len(st.calls) + 1])
    IN  [paper |-> With(p, "id", Str(g.id)),
         st |-> [seenIds |-> st.seenIds \cup {g.id},
                 counter |-> g.counter,
                 calls |-> Append(st.calls,
                                  [id |-> g.id, clash |-> g.id \in st.seenIds])]]

\* one record of the inner map callback
SanitizePaper(p, st, rnd) ==
    LET currentId == CurrentId(p)
        regen == currentId = <<>> \/ currentId \in st.seenIds
        g == GenerateId(st.counter, rnd[Len(st.calls) + 1])
        finalId == IF regen THEN g.id ELSE currentId
    IN  [paper |-> With(p, "id", Str(finalId)),
         st |-> [seenIds |-> st.seenIds \cup {finalId},
                 counter |-> IF regen THEN g.counter ELSE st.counter,
                 calls |-> IF regen
                           THEN Append(st.calls,
                                       [id |-> g.id,
                                        clash |-> g.id \in st.seenIds])
                           ELSE st.calls]]

\* s.papers.map(...): the records of one group, in order
RECURSIVE SanitizePapers(_, _, _)
SanitizePapers(papers, st, rnd) ==
    IF papers = <<>> THEN [papers |-> <<>>, st |-> st]
    ELSE LET h == SanitizePaper(Head(papers), st, rnd)
             r == SanitizePapers(Tail(papers), h.st, rnd)
         IN  [papers |-> <<h.paper>> \o r.papers, st |-> r.st]

\* a seen-set of the group's own: the walk starts every group with none seen
SanitizeSheetOwnSeen(s, st, rnd) ==
    IF IsArray(Get(s, "papers"))
    THEN LET r == SanitizePapers(Get(s, "papers").v,
                                 [st EXCEPT !.seenIds = {}], rnd)
         IN  [sheet |-> With(s, "papers", Arr(r.papers)), st |-> r.st]
    ELSE [sheet |-> With(s, "papers", Arr(<<>>)), st |-> st]

\* one group of the outer map callback
SanitizeSheet(s, st, rnd) ==
    IF IsArray(Get(s, "papers"))
    THEN LET r == SanitizePapers(Get(s, "papers").v, st, rnd)
         IN  [sheet |-> With(s, "papers", Arr(r.papers)), st |-> r.st]
    ELSE [sheet |-> With(s, "papers", Arr(<<>>)), st |-> st]

RECURSIVE SanitizeSheets(_, _, _)
SanitizeSheets(ss, st, rnd) ==
    IF ss = <<>> THEN [sheets |-> <<>>, st |-> st]
    ELSE LET h == SanitizeSheet(Head(ss), st, rnd)
             r == SanitizeSheets(Tail(ss), h.st, rnd)
         IN  [sheets |-> <<h.sheet>> \o r.sheets, st |-> r.st]

\* sanitizeData(rawSheets), the k-th generateId call drawing rnd[k]
SanitizeData(rawSheets, counter, rnd) ==
    SanitizeSheets(rawSheets.v, WalkStart(counter), rnd)

-----------------------------------------------------------------------------
(* Persisted collections the repair pass is run on *)

\* identifiers as they may be found in a stored record; Undef: no id field
StoredIds ==
    {Undef, Num(0), Num(7), Str(<<" ", "7", " ">>), Str(<<" ">>), Str(<<"u1">>)}

\* the k-th record of a collection, with identifier idv
StoredPaper(k, idv) ==
    LET base == Obj(Key("title") :> Str(<<"paper">> \o ToDecimal(k)))
    IN  IF idv = Undef THEN base ELSE With(base, "id", idv)

\* the g-th group: records first..first+size-1; size -1: no papers array
StoredSheet(g, first, size, ids) ==
    LET base == Obj(Key("id") :> Str(<<"sheet">> \o ToDecimal(g))
                    @@ Key("title") :> Str(<<"group">>))
    IN  IF size < 0 THEN base
        ELSE With(base, "papers",
                  Arr([i \in 1..size |->
                          StoredPaper(first + i - 1, ids[first + i - 1])]))

Records(size) == IF size < 0 THEN 0 ELSE size

RECURSIVE TotalRecords(_)
TotalRecords(sizes) ==
    IF sizes = <<>> THEN 0
    ELSE Records(Head(sizes)) + TotalRecords(Tail(sizes))

\* the sizes of the groups; only the last group may be empty or lack its
\* papers array
SheetSizes ==
    {sz \in UNION {[1..n -> -1..MaxRecords] : n \in 0..MaxSheets} :
        /\ TotalRecords(sz) <= MaxRecords
        /\ \A g \in 1..(Len(sz) - 1) : sz[g] >= 1}

StoredCollection(sizes, ids) ==
    Arr([g \in 1..Len(sizes) |->
            StoredSheet(g, TotalRecords(SubSeq(sizes, 1, g - 1)) + 1,
                        sizes[g], ids)])

-----------------------------------------------------------------------------
(* Scenario: a persisted collection is loaded and repaired *)

\* the App component not started: its initial state, nothing stored
AppIdle ==
    /\ server = <<"[", "]">>
    /\ local = Null
    /\ isInitialized = FALSE
    /\ isOfflineMode = FALSE
    /\ timer = {}
    /\ inflight = {}
    /\ edits = 0

ParseIdle ==
    /\ input = <<>>
    /\ parsed = Undef
    /\ rawPapers = <<>>
    /\ result = <<>>
    /\ raised = FALSE
    /\ effects = <<>>
    /\ parseLog = <<>>

InitRepair ==
    /\ hasCrypto \in BOOLEAN
    /\ now = 0
    /\ uniqueCounter = 0
    /\ \E sizes \in SheetSizes :
         \E ids \in [1..TotalRecords(sizes) -> StoredIds] :
            stored = StoredCollection(sizes, ids)
    /\ sheets = Arr(<<>>)
    /\ phase = "stored"
    /\ issued = <<>>
    /\ ParseIdle
    /\ AppIdle

\* setSheets(sanitizeData(parsedSheets))
Repair ==
    /\ phase = "stored"
    /\ \E rnd \in [1..MaxRecords -> RandomPool] :
          LET r == SanitizeData(stored, uniqueCounter, rnd)
          IN  /\ sheets' = Arr(r.sheets)
              /\ uniqueCounter' = r.st.counter
              /\ issued' = r.st.calls
    /\ phase' = "repaired"
    /\ UNCHANGED <<hasCrypto, now, stored>>
    /\ UNCHANGED parseVars
    /\ UNCHANGED appVars

NextRepair == Repair

SpecRepair == InitRepair /\ [][NextRepair]_vars

-----------------------------------------------------------------------------
(* Properties of the repair pass *)

RECURSIVE FlatPapers(_)
\* every record of every group of a collection, in stored order
FlatPapers(ss) ==
    IF ss = <<>> THEN <<>>
    ELSE (IF IsArray(Get(Head(ss), "papers")) THEN Get(Head(ss), "papers").v
          ELSE <<>>) \o FlatPapers(Tail(ss))

Before == FlatPapers(stored.v)
After == FlatPapers(sheets.v)

\* the group each record of a collection lies in
RECURSIVE GroupOf(_, _)
GroupOf(ss, g) ==
    IF ss = <<>> THEN <<>>
    ELSE [i \in 1..Len(FlatPapers(<<Head(ss)>>)) |-> g] \o GroupOf(Tail(ss), g + 1)

\* generateId never returned an identifier that was in the seen-set
NoGeneratedClash == \A k \in 1..Len(issued) : ~issued[k].clash

\* C1: after the repair pass no record identifier appears twice anywhere in the
\* collection, across all groups together, provided generateId never returned
\* an identifier already in the seen-set.
C1_RepairedIdsUnique ==
    (phase = "repaired" /\ NoGeneratedClash)
        => \A i, j \in 1..Len(After) :
              i # j => Get(After[i], "id") # Get(After[j], "id")

\* two records of different groups share the identifier 7, one was re-identified
C1_Witness ==
    /\ phase = "repaired"
    /\ NoGeneratedClash
    /\ Len(issued) >= 1
    /\ \E i, j \in 1..Len(Before) :
          /\ i < j
          /\ GroupOf(stored.v, 1)[i] # GroupOf(stored.v, 1)[j]
          /\ CurrentId(Before[i]) = <<"7">>
          /\ CurrentId(Before[j]) = <<"7">>
          /\ Get(After[i], "id") = Str(<<"7">>)
          /\ Get(After[j], "id") # Str(<<"7">>)

\* the stored identifier is present: the field exists and is not null
Present(p) == Get(p, "id").t \notin {"undef", "null"}
TrimmedForm(p) == Trim(ToText(Get(p, "id")))
\* the stored identifier is one the pass can keep
Keepable(p) == Truthy(Get(p, "id")) /\ TrimmedForm(p) # <<>>

\* the identifiers of the records before record i, as repaired
SeenBefore(i) == {Get(After[j], "id").v : j \in 1..(i - 1)}

\* generateId returned identifiers found nowhere in the stored collection
GeneratedFresh ==
    /\ NoGeneratedClash
    /\ \A k \in 1..Len(issued) : \A i \in 1..Len(Before) :
          Present(Before[i]) => issued[k].id # TrimmedForm(Before[i])

\* the rule of the pass read with `has` as the test for a usable identifier
RepairRule(has(_)) ==
    /\ Len(After) = Len(Before)
    /\ \A i \in 1..Len(Before) :
          LET kept(j) == has(Before[j])
                            /\ TrimmedForm(Before[j]) \notin SeenBefore(j)
              calls == Cardinality({j \in 1..i : ~kept(j)})
          IN  IF kept(i)
              THEN Get(After[i], "id") = Str(TrimmedForm(Before[i]))
              ELSE /\ calls <= Len(issued)
                   /\ Get(After[i], "id") = Str(issued[calls].id)
    /\ GeneratedFresh =>
          \A i \in 1..Len(Before) :
             has(Before[i]) =>
                LET same == {j \in 1..Len(Before) :
                                has(Before[j])
                                   /\ TrimmedForm(Before[j]) = TrimmedForm(Before[i])}
                    first == CHOOSE j \in same : \A m \in same : j <= m
                    retains(j) == Get(After[j], "id") = Str(TrimmedForm(Before[i]))
                IN  Cardinality(same) >= 2 => (retains(i) <=> i = first)

C3_RepairFrame ==
    phase = "repaired" =>
       /\ Len(sheets.v) = Len(stored.v)
       /\ \A g \in 1..Len(stored.v) :
             LET s == stored.v[g]
                 r == sheets.v[g]
                 ps == IF IsArray(Get(s, "papers")) THEN Get(s, "papers").v
                       ELSE <<>>
             IN  /\ Without(r, "papers") = Without(s, "papers")
                 /\ IsArray(Get(r, "papers"))
                 /\ Len(Get(r, "papers").v) = Len(ps)
                 /\ \A i \in 1..Len(ps) :
                       Without(Get(r, "papers").v[i], "id") = Without(ps[i], "id")

\* two groups holding three records, of which at least one was re-identified
C3_Witness ==
    /\ phase = "repaired"
    /\ Len(stored.v) = 2
    /\ Len(Before) = 3
    /\ Len(issued) >= 1
    /\ \A g \in 1..2 : Len(FlatPapers(<<sheets.v[g]>>)) >= 1
    /\ \E i \in 1..3 : Get(After[i], "id") # Get(Before[i], "id")

-----------------------------------------------------------------------------
(* Texts handed to parseRawJson *)

\* a call expression inside a text to be written out
Call(lexeme) == [t |-> "call", v |-> lexeme]

\* the order in which the fields of an object are written out
FieldOrder ==
    <<"data", "output", "Título", "Año", "Etiquetas", "Resumen Ejecutivo",
      "Conclusión/Aporte Clave", "url", "link", "URL", "href", "doi", "note",
      "id", "title", "createdAt", "papers", "year", "tags", "summary",
      "contribution", "userNotes", "isImportant", "links">>

\* a string's content inside double quotes
Escaped(text) == [i \in 1..Len(text) |-> IF text[i] = "\"" THEN "\\\"" ELSE text[i]]

RECURSIVE Render(_, _)
RECURSIVE RenderItems(_, _)
RECURSIVE RenderFields(_, _, _)

\* value x written as JSON (js = FALSE), or the way a JavaScript object
\* literal is typed by hand (js = TRUE): bare keys, single quotes, trailing
\* commas
Render(x, js) ==
    CASE x.t = "null" -> <<"null">>
      [] x.t = "undef" -> <<"undefined">>
      [] x.t = "call" -> <<x.v>>
      [] x.t = "bool" -> IF x.v THEN <<"true">> ELSE <<"false">>
      [] x.t = "num" -> ToDecimal(x.v)
      [] x.t = "str" ->
            IF js /\ ~Contains(x.v, {"'"})
            THEN <<"'">> \o x.v \o <<"'">>
            ELSE <<"\"">> \o Escaped(x.v) \o <<"\"">>
      [] x.t = "arr" -> <<"[">> \o RenderItems(x.v, js) \o <<"]">>
      [] x.t = "obj" -> <<"{">> \o RenderFields(x, FieldOrder, js) \o <<"}">>

RenderItems(xs, js) ==
    IF xs = <<>> THEN <<>>
    ELSE Render(Head(xs), js)
            \o (IF Len(xs) > 1 \/ js THEN <<",">> ELSE <<>>)
            \o RenderItems(Tail(xs), js)

RenderFields(x, order, js) ==
    IF order = <<>> THEN <<>>
    ELSE LET k == Head(order)
             later == RenderFields(x, Tail(order), js)
         IN  IF Key(k) \notin DOMAIN x.v THEN later
             ELSE (IF js /\ k \in Identifiers THEN <<k>> ELSE <<"\"", k, "\"">>)
                     \o <<":">> \o Render(x.v[Key(k)], js)
                     \o (IF later # <<>> \/ js THEN <<",">> ELSE <<>>)
                     \o later

Arrays(S, n) == UNION {[1..k -> S] : k \in 0..n}

CandA == Obj(Key("Título") :> Str(<<"A">>))
CandB == Obj(Key("Título") :> Str(<<"B">>))
CandS == Obj(Key("Resumen Ejecutivo") :> Str(<<"S">>))
Plain == Obj(Key("note") :> Str(<<"x">>))
\* an object whose only field is an empty title
CandBlank == Obj(Key("Título") :> Str(<<>>))
\* a candidate whose title is null
CandNulls == Obj(Key("Título") :> Null @@ Key("Resumen Ejecutivo") :> Str(<<"S">>))

\* what the array inside an output string may hold
EmbeddedElems == {CandB, Null, Num(5)}

\* the strings found in an output field
OutputTexts ==
    {Render(Arr(es), js) : es \in Arrays(EmbeddedElems, MaxEmbedded), js \in BOOLEAN}
       \cup {Render(CandB, FALSE),
             <<"[", "{">>,
             <<"not", " ", "json">>,
             <<"[", "\"", "a", "\t", "b", "\"", "]">>,
             <<"[", "localStorage.clear()", "]">>,
             <<"[", "localStorage.clear()", ",", "oops", "]">>}
OutputValues == {Str(x) : x \in OutputTexts} \cup {Num(5)}
OutputFew ==
    {Str(<<"[", "{">>), Str(Render(Arr(<<CandB>>), FALSE)),
     Str(Render(Arr(<<CandB>>), TRUE))}

\* what a data field may hold
Wrapped == Obj(Key("output") :> Str(Render(Arr(<<CandB>>), FALSE)))
DataElems == {CandA, Null, Wrapped}
DataValues == {Arr(es) : es \in Arrays(DataElems, MaxData)} \cup {Str(<<"x">>)}
DataFew == {Arr(<<CandA>>)}

Absent == [t |-> "absent"]
Field(k, x) == IF x = Absent THEN NoFields ELSE Key(k) :> x
Node(d, o, title) ==
    Obj(Field("data", d) @@ Field("output", o) @@ Field("Título", title))

Nodes ==
    {Node(d, o, title) :
        d \in DataValues \cup {Absent}, o \in OutputFew \cup {Absent},
        title \in {Absent, Str(<<"T">>)}}
    \cup
    {Node(d, o, title) :
        d \in DataFew \cup {Absent}, o \in OutputValues,
        title \in {Absent, Str(<<"T">>)}}

Trees ==
    Nodes \cup {Arr(<<n>>) : n \in Nodes}
          \cup {Arr(<<n, CandS>>) : n \in Nodes}
          \cup {Arr(<<CandS, n>>) : n \in Nodes}
          \cup {Null, Num(5), Str(<<"x">>), Call("localStorage.clear()")}
          \cup {Arr(<<CandNulls, CandS>>), Obj(Key("data") :> Arr(<<CandNulls>>))}
          \cup {CandBlank, Arr(<<CandBlank, CandS>>),
                Obj(Key("data") :> Arr(<<CandA, CandBlank>>))}

Truncated(text) == SubSeq(text, 1, Len(text) - 1)

InputTexts ==
    {Render(x, js) : x \in Trees, js \in BOOLEAN}
       \cup {Truncated(Render(n, FALSE)) : n \in Nodes}
       \cup {<<>>}

-----------------------------------------------------------------------------
(* Scenario: one call of parseRawJson *)

RepairIdle ==
    /\ stored = Arr(<<>>)
    /\ sheets = Arr(<<>>)
    /\ issued = <<>>

InitParse ==
    /\ hasCrypto \in BOOLEAN
    /\ now = 0
    /\ uniqueCounter = 0
    /\ RepairIdle
    /\ phase = "input"
    /\ input \in InputTexts
    /\ parsed = Undef
    /\ rawPapers = <<>>
    /\ result = <<>>
    /\ raised = FALSE
    /\ effects = <<>>
    /\ parseLog = <<>>
    /\ AppIdle

\* the two parse attempts on the input; return [] when both fail
Deserialize ==
    /\ phase = "input"
    /\ LET d == DecodeInput(input)
       IN  /\ effects' = effects \o d.fx
           /\ parseLog' = parseLog \o d.log
           /\ IF d.ok
              THEN /\ parsed' = d.val
                   /\ phase' = "parsed"
                   /\ UNCHANGED <<result, raised>>
              ELSE /\ result' = OnParseFailure.result
                   /\ raised' = OnParseFailure.raised
                   /\ phase' = "done"
                   /\ UNCHANGED parsed
    /\ UNCHANGED <<hasCrypto, now, uniqueCounter, input, rawPapers>>
    /\ UNCHANGED repairVars
    /\ UNCHANGED appVars

\* traverse(parsed)
Mine ==
    /\ phase = "parsed"
    /\ LET y == Traverse(parsed)
       IN  /\ effects' = effects \o y.fx
           /\ parseLog' = parseLog \o y.log
           /\ rawPapers' = y.raw
           /\ IF y.threw
              THEN /\ result' = OnMappingError.result
                   /\ raised' = OnMappingError.raised
                   /\ phase' = "done"
              ELSE /\ phase' = "mined"
                   /\ UNCHANGED <<result, raised>>
    /\ UNCHANGED <<hasCrypto, now, uniqueCounter, input, parsed>>
    /\ UNCHANGED repairVars
    /\ UNCHANGED appVars

\* the random outcomes of n generateId calls, all alike
RepeatedDraws(n) == {[k \in 1..n |-> r] : r \in RandomPool}

\* return rawPapers.map(...); return [] when a callback throws
Normalize ==
    /\ phase = "mined"
    /\ \E rnd \in RepeatedDraws(Len(rawPapers)) :
          LET m == MapPapers(rawPapers, 1, uniqueCounter, rnd)
          IN  /\ uniqueCounter' = m.counter
              /\ IF m.threw
                 THEN /\ result' = OnMappingError.result
                      /\ raised' = OnMappingError.raised
                 ELSE /\ result' = m.papers
                      /\ UNCHANGED raised
    /\ phase' = "done"
    /\ UNCHANGED <<hasCrypto, now, input, parsed, rawPapers, effects, parseLog>>
    /\ UNCHANGED repairVars
    /\ UNCHANGED appVars

NextParse == Deserialize \/ Mine \/ Normalize

SpecParse == InitParse /\ [][NextParse]_vars

-----------------------------------------------------------------------------
(* Scenario: parseRawJson on an array of one record, its fields varied *)

LinkA == <<"https://", "foo.bar">>
LinkB == <<"arXiv:", "2", "1", ".", "7">>

\* free text mentioning the links ls, in order
Prose(ls) == <<"see", " ">> \o JoinTexts(ls, <<" ">>)

ProseValues ==
    {Str(Prose(ls)) : ls \in Arrays({LinkA, LinkB}, MaxLinks)}

\* what an explicit link field may hold
UrlValues ==
    {Absent, Num(5), Str(<<>>), Str(<<" ">>),
     Str(<<"example.com/x">>),
     Str(<<" ">> \o LinkA \o <<" ">>),
     Str(<<"ftp://", "example.com/x">>),
     Str(<<"httpbin.org/get">>),
     Str(<<"arXiv.org/", "abs", "/", "7">>),
     Str(LinkB),
     Str(<<"10.1000/182">>)}

\* records whose link-bearing fields vary
LinkRecords ==
    {Obj(Field("Título", Str(<<"A">>)) @@ Field("Resumen Ejecutivo", summary)
           @@ Field("Conclusión/Aporte Clave", contribution)
           @@ Field("url", url) @@ Field("link", link) @@ Field("doi", doi)) :
        summary \in ProseValues \cup {Absent},
        contribution \in {Absent, Str(LinkA)},
        url \in UrlValues,
        link \in {Absent, Str(LinkA)},
        doi \in {Absent, Str(<<"10.1000/182">>)}}
    \cup
    {Obj(Field("Título", Str(<<"A">>)) @@ Field("url", url)
           @@ Field("URL", upper) @@ Field("href", href)
           @@ Field("doi", Str(<<"10.1000/182">>))) :
        url \in {Absent, Str(<<>>)},
        upper \in {Absent, Null, Str(<<"www.", "x", ".org">>)},
        href \in {Absent, Str(<<"example.com/x">>)}}

\* records whose text fields vary
FieldRecords ==
    {Obj(Field("Título", title) @@ Field("Año", year) @@ Field("Etiquetas", tags)
           @@ Field("Resumen Ejecutivo", summary)
           @@ Field("Conclusión/Aporte Clave", contribution)) :
        title \in {Absent, Null, Num(5), Str(<<>>), Str(<<"A">>)},
        year \in {Absent, Null, Num(0), Num(2020), Str(<<>>),
                  Str(<<"2", "0", "2", "0">>)},
        tags \in {Absent, Null, Str(<<"a">>), Arr(<<Str(<<"b">>), Str(<<"a">>)>>)},
        summary \in {Absent, Str(<<>>), Str(<<"S">>)},
        contribution \in {Absent, Num(0), Str(<<>>), Str(<<"K">>)}}

RecordTexts ==
    {Render(Arr(<<rp>>), FALSE) : rp \in LinkRecords \cup FieldRecords}

InitNormalize ==
    /\ hasCrypto \in BOOLEAN
    /\ now = 0
    /\ uniqueCounter = 0
    /\ RepairIdle
    /\ phase = "input"
    /\ input \in RecordTexts
    /\ parsed = Undef
    /\ rawPapers = <<>>
    /\ result = <<>>
    /\ raised = FALSE
    /\ effects = <<>>
    /\ parseLog = <<>>
    /\ AppIdle

SpecNormalize == InitNormalize /\ [][NextParse]_vars

-----------------------------------------------------------------------------
(* One call of parseRawJson: what is checked *)

RECURSIVE LiteralData(_)
\* a value tree of objects, arrays, strings, numbers, booleans and null
LiteralData(x) ==
    CASE x.t = "arr" -> \A i \in 1..Len(x.v) : LiteralData(x.v[i])
      [] x.t = "obj" -> \A k \in DOMAIN x.v : LiteralData(x.v[k])
      [] OTHER -> x.t \in {"str", "num", "bool", "null"}

\* C5: the deserializer never executes code: no call is ever performed, and
\* the value it hands over is made of literal data only.
C5_NeverExecutes ==
    /\ effects = <<>>
    /\ phase = "parsed" => LiteralData(parsed)

\* the input holds a call expression and the loose attempt has run on it
C5_Witness ==
    /\ phase = "parsed"
    /\ Contains(input, CallLexemes)
    /\ Len(parseLog) = 2
    /\ parseLog[2] = Attempt("loose", input, TRUE)

\* both attempts on the input were made and failed
BothAttemptsFailed ==
    /\ Len(parseLog) >= 2
    /\ parseLog[1] = Attempt("strict", input, FALSE)
    /\ parseLog[2] = Attempt("loose", input, FALSE)

\* C6: parseRawJson never raises to its caller, and returns the empty
\* sequence when both parse attempts on the input fail.
C6_NeverRaises ==
    /\ ~raised
    /\ phase = "done" /\ BothAttemptsFailed => result = <<>>

\* a truncated, non-empty input on which both attempts failed
C6_Witness ==
    /\ phase = "done"
    /\ BothAttemptsFailed
    /\ input # <<>>
    /\ \E n \in Nodes : input = Truncated(Render(n, FALSE))
    /\ result = <<>>
    /\ ~raised

\* an object whose output string neither attempt decodes
Undecodable(node) ==
    /\ IsObject(node)
    /\ IsString(Get(node, "output"))
    /\ ~DecodeOutput(Get(node, "output").v).ok

RECURSIVE Pruned(_)
\* the value tree with the undecodable output fields removed
Pruned(x) ==
    IF IsArray(x) THEN Arr([i \in 1..Len(x.v) |-> Pruned(x.v[i])])
    ELSE IF IsObject(x)
    THEN LET y == IF Undecodable(x) THEN Without(x, "output") ELSE x
         IN  IF IsArray(Get(y, "data"))
             THEN With(y, "data", Pruned(Get(y, "data")))
             ELSE y
    ELSE x

\* the records without their identifiers
Stripped(records) == [i \in 1..Len(records) |-> Without(records[i], "id")]

\* what parseRawJson returns for a value tree
Mapped(y) ==
    MapPapers(y.raw, 1, 0, [k \in 1..Len(y.raw) |-> "u1"])
Returned(y, m) == IF y.threw \/ m.threw THEN <<>> ELSE m.papers
Outcome(tree) == Returned(Traverse(tree), Mapped(Traverse(tree)))

\* C7: an output string that neither attempt decodes only switches off the
\* output rule of its object: the records returned are those returned for the
\* same tree without that field (identifiers aside).
C7_UndecodableOutputSkipped ==
    phase = "done" => Stripped(result) = Stripped(Outcome(Pruned(parsed)))

\* an envelope with an undecodable output, a title of its own and a sibling:
\* its data element, itself and the sibling are all returned
C7_Witness ==
    /\ phase = "done"
    /\ IsArray(parsed)
    /\ Len(parsed.v) = 2
    /\ Undecodable(parsed.v[1])
    /\ Pruned(parsed) # parsed
    /\ Len(result) = 3
    /\ Get(result[3], "summary") = Str(<<"S">>)

\* C8: parseRawJson returns exactly one record per candidate, in the order
\* of the candidates.
C8_OnePerCandidate ==
    phase = "done" =>
       /\ Len(result) = Len(rawPapers)
       /\ \A i \in 1..Len(rawPapers) :
             Without(result[i], "id") = Without(Paper(rawPapers[i], <<>>), "id")

\* a null appended from a decoded output array is among the candidates
C8_Witness ==
    /\ phase = "done"
    /\ \E i \in 1..Len(rawPapers) : rawPapers[i] = Null
    /\ \E i \in 1..Len(rawPapers) : IsObject(rawPapers[i])

PaperFields ==
    {Key(k) : k \in {"id", "title", "year", "tags", "summary", "contribution",
                     "userNotes", "isImportant", "links"}}

\* C9: every record returned has all nine fields, none of them null or
\* undefined, with empty userNotes and isImportant false.
C9_SchemaComplete ==
    \A i \in 1..Len(result) :
       /\ IsObject(result[i])
       /\ DOMAIN result[i].v = PaperFields
       /\ \A k \in PaperFields : result[i].v[k].t \notin {"null", "undef"}
       /\ Get(result[i], "userNotes") = Str(<<>>)
       /\ Get(result[i], "isImportant") = Bool(FALSE)

\* two records returned, the first from a candidate whose title is null
C9_Witness ==
    /\ phase = "done"
    /\ Len(result) = 2
    /\ Get(rawPapers[1], "Título") = Null
    /\ Get(result[1], "title") = Str(<<"Untitled Paper">>)
    /\ Get(result[2], "title") = Str(<<"Untitled Paper">>)
    /\ Get(result[2], "year") = Str(<<"N/D">>)

RECURSIVE Contributions(_)
\* what the elements contribute, in order
Contributions(xs) ==
    IF xs = <<>> THEN <<>>
    ELSE Traverse(Head(xs)).raw \o Contributions(Tail(xs))

\* the value tree is an object whose data is an array and which has no
\* title-like or summary-like field of its own
BareEnvelope ==
    /\ phase \in {"mined", "done"}
    /\ IsObject(parsed)
    /\ IsArray(Get(parsed, "data"))
    /\ ~LooksLikePaper(parsed)

\* C10 as stated: a bare envelope contributes only what the elements of its
\* data array contribute.
C10_AsClaimed ==
    BareEnvelope => rawPapers = Contributions(Get(parsed, "data").v)

\* C10: a bare envelope whose output field, if any, decodes to no element
\* contributes exactly what the elements of its data array contribute, in
\* order.
C10_EnvelopeUnwrap ==
    BareEnvelope /\ EmbeddedOutput(parsed).raw = <<>>
       => rawPapers = Contributions(Get(parsed, "data").v)

\* {"data":[{"Título":"A"}]} yields exactly the candidate {Título:"A"}
C10_Witness ==
    /\ phase = "mined"
    /\ input = Render(Obj(Key("data") :> Arr(<<CandA>>)), FALSE)
    /\ parsed = Obj(Key("data") :> Arr(<<CandA>>))
    /\ rawPapers = <<CandA>>

-----------------------------------------------------------------------------
(* traverse: what is checked of its three rules *)

\* the object the walk starts from: the value tree itself, or the only
\* element of a one-element array
Focus ==
    IF IsObject(parsed) THEN parsed
    ELSE IF IsArray(parsed) /\ Len(parsed.v) = 1 /\ IsObject(parsed.v[1])
    THEN parsed.v[1]
    ELSE Undef

Walked == phase \in {"mined", "done"} /\ IsObject(Focus)

\* the elements of the array an output string decodes to
OutputElements(d) == IF d.ok /\ IsArray(d.val) THEN d.val.v ELSE <<>>
OutputPart(node) ==
    IF IsString(Get(node, "output"))
    THEN OutputElements(DecodeOutput(Get(node, "output").v))
    ELSE <<>>

\* what the elements of a data array contribute
DataPart(node) ==
    IF IsArray(Get(node, "data")) THEN Contributions(Get(node, "data").v)
    ELSE <<>>

\* C11: an output string that decodes to an array of n elements appends
\* exactly those n elements, in order, after what the data elements
\* contribute; one that decodes to something else appends nothing.
C11_OutputUnwrap ==
    Walked =>
       LET k == Len(DataPart(Focus))
           n == Len(OutputPart(Focus))
       IN  /\ Len(rawPapers) = k + n + (IF LooksLikePaper(Focus) THEN 1 ELSE 0)
           /\ SubSeq(rawPapers, k + 1, k + n) = OutputPart(Focus)

\* [{"output":"[{\"Título\":\"B\"}]"}] yields exactly the candidate {Título:"B"}
C11_Witness ==
    /\ phase = "mined"
    /\ input = <<"[", "{", "\"", "output", "\"", ":", "\"", "[", "{", "\\\"",
                 "Título", "\\\"", ":", "\\\"", "B", "\\\"", "}", "]", "\"",
                 "}", "]">>
    /\ Get(Focus, "output") = Str(<<"[", "{", "\"", "Título", "\"", ":", "\"",
                                    "B", "\"", "}", "]">>)
    /\ rawPapers = <<CandB>>

\* what the self rule contributes
SelfPart(node) == IF LooksLikePaper(node) THEN <<node>> ELSE <<>>

\* C12: the rules are independent: an object contributes what its data
\* elements contribute, then the elements of its decoded output, then itself.
C12_RulesIndependent ==
    Walked => rawPapers = DataPart(Focus) \o OutputPart(Focus) \o SelfPart(Focus)

\* an object wrapping a data array of one record and carrying a title of its
\* own yields two candidates: the wrapped record, then the object itself
C12_Witness ==
    /\ phase = "mined"
    /\ parsed = Obj(Key("data") :> Arr(<<CandA>>) @@ Key("Título") :> Str(<<"T">>))
    /\ rawPapers = <<CandA, parsed>>

RECURSIVE Reached(_)
RECURSIVE ReachedAll(_)
\* the object nodes the walk visits, in the order it leaves them
Reached(x) ==
    IF IsArray(x) THEN ReachedAll(x.v)
    ELSE IF IsObject(x)
    THEN (IF IsArray(Get(x, "data")) THEN ReachedAll(Get(x, "data").v) ELSE <<>>)
            \o <<x>>
    ELSE <<>>
ReachedAll(xs) ==
    IF xs = <<>> THEN <<>> ELSE Reached(Head(xs)) \o ReachedAll(Tail(xs))

RECURSIVE Unwrapped(_)
\* what the output rule appends for the nodes ns
Unwrapped(ns) ==
    IF ns = <<>> THEN <<>> ELSE OutputPart(Head(ns)) \o Unwrapped(Tail(ns))

Count(x, xs) == Cardinality({i \in 1..Len(xs) : xs[i] = x})

\* the candidates are, value by value, those the output rule appends plus
\* one for each visit of a node that has(node) holds of
SelfRule(has(_)) ==
    phase \in {"mined", "done"} =>
       LET ns == Reached(parsed)
       IN  \A i \in 1..Len(ns) :
              Count(ns[i], rawPapers) =
                 Count(ns[i], Unwrapped(ns))
                    + (IF has(ns[i]) THEN Count(ns[i], ns) ELSE 0)

\* the node has a Título field or a Resumen Ejecutivo field
CarriesField(node) ==
    \/ Key("Título") \in DOMAIN node.v
    \/ Key("Resumen Ejecutivo") \in DOMAIN node.v

\* the value of the node's Título or of its Resumen Ejecutivo is truthy
CarriesValue(node) ==
    \/ Truthy(Get(node, "Título"))
    \/ Truthy(Get(node, "Resumen Ejecutivo"))

\* C13 as stated: the self rule appends, once, every visited object that has
\* a Título or a Resumen Ejecutivo field, and no other.
C13_AsClaimed == SelfRule(CarriesField)

\* C13: the self rule appends, once, every visited object whose Título or
\* Resumen Ejecutivo is truthy (a non-empty text, say), and no other.
C13_SelfRule == SelfRule(CarriesValue)

\* {"data":[{"Título":"A"},{"Título":""}]}: of the three objects visited
\* only the first record is appended
C13_Witness ==
    /\ phase = "mined"
    /\ parsed = Obj(Key("data") :> Arr(<<CandA, CandBlank>>))
    /\ Reached(parsed) = <<CandA, CandBlank, parsed>>
    /\ rawPapers = <<CandA>>

-----------------------------------------------------------------------------
(* rawPapers.map: what is checked of the records *)

\* the texts of the links of record i
LinkTexts(i) ==
    [j \in 1..Len(Get(result[i], "links").v) |-> Get(result[i], "links").v[j].v]

\* the links found in the summary and contribution texts of candidate rp
TextLinks(rp) ==
    ExtractLinks(ToText(OrElse(Get(rp, "Resumen Ejecutivo"), Str(<<>>)))
                    \o <<" ">>
                    \o ToText(OrElse(Get(rp, "Conclusión/Aporte Clave"), Str(<<>>))))

Range(xs) == {xs[j] : j \in 1..Len(xs)}

\* every candidate was mapped to a record
Normalized == phase = "done" /\ Len(result) = Len(rawPapers)

\* C14: when the explicit link of a candidate is a non-empty text, its
\* normalized form is the first link of the record, and the others are the
\* links found in the summary and contribution texts.
C14_ExplicitLinkFirst ==
    Normalized =>
       \A i \in 1..Len(result) :
          LET e == ExplicitLink(rawPapers[i])
              ls == LinkTexts(i)
          IN  Truthy(e) /\ IsString(e) =>
                 /\ ls # <<>>
                 /\ ls[1] = CleanLink(e.v)
                 /\ Range(Tail(ls)) \subseteq Range(TextLinks(rawPapers[i]))
                 /\ Range(TextLinks(rawPapers[i])) \subseteq Range(ls)

\* url example.com/x with summary "see https://foo.bar" gives the links
\* https://example.com/x, https://foo.bar
C14_Witness ==
    /\ Normalized
    /\ Len(result) = 1
    /\ Get(rawPapers[1], "url") = Str(<<"example.com/x">>)
    /\ Get(rawPapers[1], "Resumen Ejecutivo") = Str(<<"see", " ", "https://", "foo.bar">>)
    /\ LinkTexts(1) = << <<"https://", "example.com/x">>, <<"https://", "foo.bar">> >>

\* lexemes that are a scheme, or an identifier prefix written like one
SchemeLexemes == {"http://", "https://", "ftp://", "arXiv:"}
HasScheme(text) == text # <<>> /\ Head(text) \in SchemeLexemes
ResemblesDomain(text) ==
    Contains(text, WwwLexemes \cup DotComLexemes \cup DotOrgLexemes)

\* C15: the explicit link is trimmed, and https:// is put in front of it
\* exactly when the trimmed text has no scheme and contains www, .com or
\* .org; otherwise the trimmed text is left as it is.
C15_SchemeRule ==
    Normalized =>
       \A i \in 1..Len(result) :
          LET e == ExplicitLink(rawPapers[i])
              t == Trim(e.v)
          IN  Truthy(e) /\ IsString(e) =>
                 LinkTexts(i)[1] =
                    IF ~HasScheme(t) /\ ResemblesDomain(t)
                    THEN <<"https://">> \o t ELSE t

\* the explicit link ftp://example.com/x has been normalized
C15_Witness ==
    /\ Normalized
    /\ Len(result) = 1
    /\ Get(rawPapers[1], "url") = Str(<<"ftp://", "example.com/x">>)
    /\ LinkTexts(1)[1] = <<"https://", "ftp://", "example.com/x">>

\* the explicit link-bearing fields, in the order they are inspected
LinkFields == <<"url", "link", "URL", "href", "doi">>

RECURSIVE FirstNonEmpty(_, _)
\* the value of the first of the fields ks that is not empty, if any
FirstNonEmpty(rp, ks) ==
    IF ks = <<>> THEN Undef
    ELSE IF Truthy(Get(rp, Head(ks))) THEN Get(rp, Head(ks))
    ELSE FirstNonEmpty(rp, Tail(ks))

\* the non-empty texts among the explicit link fields of rp
LinkFieldTexts(rp) ==
    {Get(rp, LinkFields[k]).v :
        k \in {j \in 1..Len(LinkFields) :
                  IsString(Get(rp, LinkFields[j])) /\ Truthy(Get(rp, LinkFields[j]))}}

\* C16: the first non-empty field among url, link, URL, href, doi is the one
\* normalized and placed first, and a candidate with a non-empty text in any
\* of these fields gets an explicit link.
C16_FirstNonEmptyField ==
    Normalized =>
       \A i \in 1..Len(result) :
          LET rp == rawPapers[i]
              e == FirstNonEmpty(rp, LinkFields)
              ls == LinkTexts(i)
          IN  /\ IsString(e) => ls # <<>> /\ ls[1] = CleanLink(e.v)
              /\ LinkFieldTexts(rp) # {} =>
                    /\ ls # <<>>
                    /\ ls[1] \in {CleanLink(t) : t \in LinkFieldTexts(rp)}

\* url is the number 5 and link a text: the record has no link at all
C16_Witness ==
    /\ Normalized
    /\ Len(result) = 1
    /\ Get(rawPapers[1], "url") = Num(5)
    /\ Get(rawPapers[1], "link") = Str(LinkA)
    /\ LinkTexts(1) = <<>>

\* the explicit link, when it is a non-empty text, then the links found in
\* the texts
CombinedLinks(rp) ==
    (IF Truthy(ExplicitLink(rp)) /\ IsString(ExplicitLink(rp))
     THEN <<CleanLink(ExplicitLink(rp).v)>> ELSE <<>>) \o TextLinks(rp)

RECURSIVE FirstOccurrences(_, _)
\* xs without the elements of seen and without repetitions
FirstOccurrences(xs, seen) ==
    IF xs = <<>> THEN <<>>
    ELSE IF Head(xs) \in seen THEN FirstOccurrences(Tail(xs), seen)
    ELSE <<Head(xs)>> \o FirstOccurrences(Tail(xs), seen \cup {Head(xs)})

\* C17: the links of a record hold no text twice, and are the combined
\* sequence (explicit link, then links found in the texts) reduced to the
\* first occurrence of each text, in order.
C17_LinksDeduplicated ==
    Normalized =>
       \A i \in 1..Len(result) :
          LET ls == LinkTexts(i)
          IN  /\ \A j, k \in 1..Len(ls) : j # k => ls[j] # ls[k]
              /\ ls = FirstOccurrences(CombinedLinks(rawPapers[i]), {})

\* explicit link https://foo.bar, and a summary naming https://foo.bar,
\* arXiv:21.7 and https://foo.bar again: two links are left
C17_Witness ==
    /\ Normalized
    /\ Len(result) = 1
    /\ CombinedLinks(rawPapers[1]) = <<LinkA, LinkA, LinkB, LinkA>>
    /\ LinkTexts(1) = <<LinkA, LinkB>>

\* C18: deduplication is idempotent: deduplicating the links of a record,
\* themselves the outcome of a deduplication, leaves them as they are.
C18_DedupeIdempotent ==
    Normalized =>
       \A i \in 1..Len(result) :
          /\ Dedupe(LinkTexts(i)) = LinkTexts(i)
          /\ Dedupe(Dedupe(CombinedLinks(rawPapers[i])))
                = Dedupe(CombinedLinks(rawPapers[i]))

\* a record whose texts name two links twice each
C18_Witness ==
    /\ Normalized
    /\ Len(result) = 1
    /\ TextLinks(rawPapers[1]) = <<LinkB, LinkA, LinkB, LinkA>>
    /\ LinkTexts(1) = <<LinkB, LinkA>>
    /\ Dedupe(LinkTexts(1)) = <<LinkB, LinkA>>

\* the field is there and holds something other than null
HasValue(x) == x.t \notin {"null", "undef"}

\* the value of a record field taken from a candidate field when has(_)
\* holds of it, a default otherwise
Defaulted(x, default, has(_)) == IF has(x) THEN x ELSE default

\* title, summary, contribution and tags of every record follow the mapping
\* in which a candidate field counts when has(_) holds of its value
FieldMapping(has(_)) ==
    Normalized =>
       \A i \in 1..Len(result) :
          LET rp == rawPapers[i]
              r == result[i]
          IN  /\ Get(r, "title") =
                    Defaulted(Get(rp, "Título"), Str(<<"Untitled Paper">>), has)
              /\ Get(r, "summary") =
                    Defaulted(Get(rp, "Resumen Ejecutivo"),
                              Str(<<"No summary provided.">>), has)
              /\ Get(r, "contribution") =
                    Defaulted(Get(rp, "Conclusión/Aporte Clave"), Str(<<>>), has)
              /\ Get(r, "tags") =
                    IF IsArray(Get(rp, "Etiquetas")) THEN Get(rp, "Etiquetas")
                    ELSE Arr(<<>>)

\* C19 as stated: title, summary and contribution are the candidate's
\* fields when it has them, the defaults otherwise; tags is Etiquetas when
\* it is a sequence, else empty.
C19_AsClaimed == FieldMapping(HasValue)

\* C19: title, summary and contribution are the candidate's fields when
\* their values are truthy, the defaults otherwise; tags is Etiquetas,
\* order kept, when it is a sequence, else empty.
C19_FieldMapping == FieldMapping(Truthy)

\* an empty title, a summary, no contribution and two tags
C19_Witness ==
    /\ Normalized
    /\ Len(result) = 1
    /\ Get(rawPapers[1], "Título") = Str(<<>>)
    /\ Get(rawPapers[1], "Conclusión/Aporte Clave") = Undef
    /\ Get(result[1], "title") = Str(<<"Untitled Paper">>)
    /\ Get(result[1], "summary") = Str(<<"S">>)
    /\ Get(result[1], "contribution") = Str(<<>>)
    /\ Get(result[1], "tags") = Arr(<<Str(<<"b">>), Str(<<"a">>)>>)

\* the year of every record is text: the candidate's Año made text when
\* has(_) holds of it, N/D otherwise
YearMapping(has(_)) ==
    Normalized =>
       \A i \in 1..Len(result) :
          /\ IsString(Get(result[i], "year"))
          /\ Get(result[i], "year") =
                IF has(Get(rawPapers[i], "Año"))
                THEN Str(ToText(Get(rawPapers[i], "Año")))
                ELSE Str(<<"N/D">>)

\* C20 as stated: the year is text, the candidate's Año made text whenever
\* it carries a value, and N/D only when it has none.
C20_AsClaimed == YearMapping(HasValue)

\* C20: the year is text, the candidate's Año made text when its value is
\* truthy, and N/D when the field is absent or its value is 0, empty or null.
C20_YearText == YearMapping(Truthy)

\* the number 2020 becomes the text 2020
C20_Witness ==
    /\ Normalized
    /\ Len(result) = 1
    /\ Get(rawPapers[1], "Año") = Num(2020)
    /\ Get(result[1], "year") = Str(<<"2", "0", "2", "0">>)

-----------------------------------------------------------------------------
(* C23: the strict parse first, the permissive one only on its failure *)

\* the texts of the output fields the walk of a value comes to decode
RECURSIVE OutputStrings(_)
RECURSIVE OutputStringsOf(_)
OutputStringsOf(items) ==
    IF items = <<>> THEN <<>>
    ELSE OutputStrings(Head(items)) \o OutputStringsOf(Tail(items))
OutputStrings(x) ==
    IF ~Truthy(x) THEN <<>>
    ELSE IF IsArray(x) THEN OutputStringsOf(x.v)
    ELSE IF IsObject(x)
    THEN (IF IsArray(Get(x, "data")) THEN OutputStringsOf(Get(x, "data").v)
          ELSE <<>>)
         \o (IF IsString(Get(x, "output")) THEN <<Get(x, "output").v>>
             ELSE <<>>)
    ELSE <<>>

\* the texts the strict parse was attempted on, in order
RECURSIVE StrictTexts(_)
StrictTexts(log) ==
    IF log = <<>> THEN <<>>
    ELSE (IF Head(log).how = "strict" THEN <<Head(log).text>> ELSE <<>>)
         \o StrictTexts(Tail(log))

\* the attempts in the log that are the first one made on their text
FirstAttempts ==
    {k \in 1..Len(parseLog) :
        k = 1 \/ parseLog[k - 1].how = "loose" \/ parseLog[k - 1].ok}

\* C23: every decoding, of the input and of each output string, starts with
\* the strict parse; the permissive parser runs only directly after a failed
\* strict parse of the same text; after a successful strict parse of the
\* input its value is the tree that is walked and no call was evaluated.
C23_StrictFirst ==
    /\ \A k \in FirstAttempts : parseLog[k].how = "strict"
    /\ \A k \in 1..Len(parseLog) :
          parseLog[k].how = "loose" =>
             /\ k > 1
             /\ parseLog[k - 1] = Attempt("strict", parseLog[k].text, FALSE)
    /\ \A k \in 1..Len(parseLog) :
          parseLog[k].how = "strict" => parseLog[k].ok = JsonParse(parseLog[k].text).ok
    /\ phase # "input" =>
          /\ parseLog # <<>>
          /\ parseLog[1].how = "strict" /\ parseLog[1].text = input
          /\ parseLog[1].ok => parsed = JsonParse(input).val
    /\ phase = "mined" => StrictTexts(parseLog) = <<input>> \o OutputStrings(parsed)
    /\ (\A k \in 1..Len(parseLog) : parseLog[k].ok /\ parseLog[k].how = "strict")
          => effects = <<>>

\* the input failed the strict parse and passed the permissive one, and an
\* output string inside it was decoded by the strict parse alone
C23_Witness ==
    /\ phase = "mined"
    /\ Len(parseLog) >= 3
    /\ parseLog[1] = Attempt("strict", input, FALSE)
    /\ parseLog[2] = Attempt("loose", input, TRUE)
    /\ parseLog[3].how = "strict" /\ parseLog[3].ok
    /\ parseLog[3].text # input
    /\ \A k \in 4..Len(parseLog) : parseLog[k].text # parseLog[3].text

-----------------------------------------------------------------------------
(* C24: the candidates come in depth-first input order *)

\* the depth-first, input-order walk of a value: the elements of an array
\* one after the other; for an object the walk of its data elements, then the
\* elements of its decoded output, then the object itself
RECURSIVE DepthFirst(_)
RECURSIVE DepthFirstEach(_)
DepthFirstEach(xs) ==
    IF xs = <<>> THEN <<>>
    ELSE DepthFirst(Head(xs)) \o DepthFirstEach(Tail(xs))
DepthFirst(x) ==
    IF ~Truthy(x) THEN <<>>
    ELSE IF IsArray(x) THEN DepthFirstEach(x.v)
    ELSE IF IsObject(x)
    THEN (IF IsArray(Get(x, "data")) THEN DepthFirstEach(Get(x, "data").v)
          ELSE <<>>)
         \o OutputPart(x) \o SelfPart(x)
    ELSE <<>>

\* C24: the candidate sequence is the depth-first, input-order walk of the
\* value tree; for an array at the top, what its elements yield is laid end
\* to end in the order of the elements.
C24_DepthFirstOrder ==
    phase = "mined" =>
       /\ rawPapers = DepthFirst(parsed)
       /\ IsArray(parsed) =>
             \A i \in 0..Len(parsed.v) :
                rawPapers = DepthFirst(Arr(SubSeq(parsed.v, 1, i)))
                               \o DepthFirst(Arr(SubSeq(parsed.v, i + 1, Len(parsed.v))))

\* [{data:[A], output:"[B]", Título:"T"}, S] yields A, B, the object, S
C24_Witness ==
    /\ phase = "mined"
    /\ IsArray(parsed) /\ Len(parsed.v) = 2
    /\ parsed.v[1] = Node(Arr(<<CandA>>), Str(Render(Arr(<<CandB>>), FALSE)),
                          Str(<<"T">>))
    /\ parsed.v[2] = CandS
    /\ rawPapers = <<CandA, CandB, parsed.v[1], CandS>>

-----------------------------------------------------------------------------
(* Scenario: a run of generateId calls *)

\* values of the module counter the run starts from: the initial one and
\* the ones just before it wraps
StartCounters ==
    {0, CounterModulus - 3, CounterModulus - 2, CounterModulus - 1}

InitGen ==
    /\ hasCrypto \in BOOLEAN
    /\ now = 0
    /\ uniqueCounter \in StartCounters
    /\ RepairIdle
    /\ ParseIdle
    /\ AppIdle
    /\ phase = "generating"

\* one call of generateId()
Generate ==
    /\ phase = "generating"
    /\ Len(issued) < MaxCalls
    /\ \E r \in RandomPool :
          LET g == GenerateId(uniqueCounter, r)
          IN  /\ uniqueCounter' = g.counter
              /\ issued' = Append(issued,
                     [id |-> g.id,
                      clash |-> \E k \in 1..Len(issued) : issued[k].id = g.id])
    /\ UNCHANGED <<hasCrypto, now, stored, sheets, phase>>
    /\ UNCHANGED parseVars
    /\ UNCHANGED appVars

NextGen == Generate

SpecGen == InitGen /\ [][NextGen]_vars

-----------------------------------------------------------------------------
(* C26: the fallback counter *)

\* the number written by a sequence of decimal digits
RECURSIVE DecimalValue(_)
DecimalValue(ds) ==
    IF ds = <<>> THEN 0
    ELSE 10 * DecimalValue(SubSeq(ds, 1, Len(ds) - 1)) + DigitValue(ds[Len(ds)])

\* the counter component of a fallback identifier id_<time>_<counter>_<random>
CounterComponent(id) ==
    LET seps == {i \in 1..Len(id) : id[i] = "_"}
        first == CHOOSE i \in seps : \A j \in seps : i <= j
        last == CHOOSE i \in seps : \A j \in seps : j <= i
    IN  DecimalValue(SubSeq(id, first + 1, last - 1))

\* C26: every call on the fallback path leaves the counter in 0..9998, one
\* further modulo 9999, and writes it into the identifier, and no identifier
\* issued earlier in the run carries the same counter component; a call on
\* the randomUUID path leaves the counter as it was.
C26_CounterStep ==
    [][issued' # issued =>
          /\ uniqueCounter \in 0..(CounterModulus - 1)
          /\ uniqueCounter' \in 0..(CounterModulus - 1)
          /\ hasCrypto => uniqueCounter' = uniqueCounter
          /\ ~hasCrypto =>
                /\ uniqueCounter' = (uniqueCounter + 1) % CounterModulus
                /\ CounterComponent(issued'[Len(issued')].id) = uniqueCounter'
                /\ \A k \in 1..Len(issued) :
                      CounterComponent(issued[k].id) # uniqueCounter']_vars

\* the counter has wrapped from 9998 to 0 and gone on to 1
C26_Witness ==
    /\ phase = "generating"
    /\ ~hasCrypto
    /\ Len(issued) = 3
    /\ CounterComponent(issued[1].id) = CounterModulus - 1
    /\ CounterComponent(issued[2].id) = 0
    /\ uniqueCounter = 1

-----------------------------------------------------------------------------
(* Scenario: the repair pass run on its own result *)

\* identifiers of the stored records of this scenario
ReloadedIds ==
    {Undef, Str(<<" ", "7", " ">>), Str(<<"7">>), Str(<<"u1">>), Str(<<"u2">>)}

InitRepairTwice ==
    /\ hasCrypto \in BOOLEAN
    /\ now = 0
    /\ uniqueCounter = 0
    /\ \E sizes \in SheetSizes :
         \E ids \in [1..TotalRecords(sizes) -> ReloadedIds] :
            stored = StoredCollection(sizes, ids)
    /\ sheets = Arr(<<>>)
    /\ phase = "stored"
    /\ issued = <<>>
    /\ ParseIdle
    /\ AppIdle

\* sanitizeData applied to the collection the first pass returned
RepairAgain ==
    /\ phase = "repaired"
    /\ \E rnd \in [1..MaxRecords -> RandomPool] :
          LET r == SanitizeData(sheets, uniqueCounter, rnd)
          IN  /\ sheets' = Arr(r.sheets)
              /\ uniqueCounter' = r.st.counter
              /\ issued' = issued \o r.st.calls
    /\ phase' = "repaired again"
    /\ UNCHANGED <<hasCrypto, now, stored>>
    /\ UNCHANGED parseVars
    /\ UNCHANGED appVars

NextRepairTwice == Repair \/ RepairAgain

SpecRepairTwice == InitRepairTwice /\ [][NextRepairTwice]_vars

-----------------------------------------------------------------------------
(* C27: the repair pass is idempotent *)

\* the identifiers of the records of a collection, in stored order
IdsOf(coll) ==
    LET ps == FlatPapers(coll.v) IN [i \in 1..Len(ps) |-> Get(ps[i], "id")]

\* every record identifier is a non-empty text without surrounding blanks,
\* and no two are equal
CleanIds(coll) ==
    LET ids == IdsOf(coll)
    IN  /\ \A i \in 1..Len(ids) :
              /\ IsString(ids[i])
              /\ ids[i].v # <<>>
              /\ ~IsSpace(ids[i].v[1])
              /\ ~IsSpace(ids[i].v[Len(ids[i].v)])
        /\ \A i, j \in 1..Len(ids) : i # j => ids[i] # ids[j]

\* the collection a pass of the scenario is applied to
PassInput == IF phase = "stored" THEN stored ELSE sheets

\* C27: a pass over the result of a pass returns the same collection and
\* calls generateId not once (generateId having returned no identifier already
\* in the seen-set, the assumption of C1); any pass over a collection of
\* distinct, non-empty, trimmed text identifiers returns them all unchanged
\* and calls generateId not once.
C27_RepairIdempotent ==
    [][phase' # phase =>
          /\ (phase = "repaired" /\ NoGeneratedClash) =>
                 (sheets' = sheets /\ issued' = issued)
          /\ CleanIds(PassInput) =>
                 (IdsOf(sheets') = IdsOf(PassInput) /\ issued' = issued)]_vars

\* the first pass re-identified a record and trimmed another, the second
\* pass changed nothing
C27_Witness ==
    /\ phase = "repaired again"
    /\ NoGeneratedClash
    /\ Len(issued) >= 1
    /\ \E i \in 1..Len(Before) :
          Get(Before[i], "id") = Str(<<" ", "7", " ">>)
             /\ Get(After[i], "id") = Str(<<"7">>)
    /\ IdsOf(stored) # IdsOf(sheets)
    /\ CleanIds(sheets)
    /\ Len(After) = MaxRecords

-----------------------------------------------------------------------------
(* The App component: loading, editing and saving the collection *)

\* JSON.stringify of a value that holds no undefined (indentation left out)
JsonStringify(x) == Render(x, FALSE)

\* the timeout the auto-save effect leaves pending after a render:
\* if (!isInitialized) return; setTimeout(() => saveData(sheets), 1000)
AutoSaveUnguarded(data, initialized, offline) ==
    {[data |-> data, offline |-> offline]}
AutoSave(data, initialized, offline) ==
    IF initialized THEN {[data |-> data, offline |-> offline]} ELSE {}

\* saveData(dataToSave) of a render in which isOfflineMode = offline:
\* the local store and the requests in flight it leaves behind
SaveData(data, offline) ==
    [local |-> Str(JsonStringify(data)),
     inflight |-> IF offline THEN inflight
                  ELSE inflight \cup {JsonStringify(data)}]

\* setSheets(newSheets) and the render that follows
SetSheets(newSheets) ==
    /\ sheets' = newSheets
    /\ timer' = AutoSave(newSheets, isInitialized, isOfflineMode)

\* setSheets(newSheets); saveData(newSheets)
SetAndSave(newSheets) ==
    /\ SetSheets(newSheets)
    /\ local' = SaveData(newSheets, isOfflineMode).local
    /\ inflight' = SaveData(newSheets, isOfflineMode).inflight

\* every record of the group replaced by the updated one
UpdateSheetWholesale(sheet, updatedPaper) ==
    LET ps == Get(sheet, "papers").v
    IN  IF \E i \in 1..Len(ps) : Get(ps[i], "id") = Get(updatedPaper, "id")
        THEN With(sheet, "papers", Arr([i \in 1..Len(ps) |-> updatedPaper]))
        ELSE sheet

\* handleUpdatePaper: the callback of prevSheets.map
UpdateSheet(sheet, updatedPaper) ==
    LET ps == Get(sheet, "papers").v
    IN  IF \E i \in 1..Len(ps) : Get(ps[i], "id") = Get(updatedPaper, "id")
        THEN With(sheet, "papers",
                  Arr([i \in 1..Len(ps) |->
                         IF Get(ps[i], "id") = Get(updatedPaper, "id")
                         THEN updatedPaper ELSE ps[i]]))
        ELSE sheet

\* the group that holds the record losing all its records
PruneSheetEmptied(sheet, targetId) ==
    LET ps == Get(sheet, "papers").v
    IN  IF \E i \in 1..Len(ps) : ToText(Get(ps[i], "id")) = targetId
        THEN With(sheet, "papers", Arr(<<>>))
        ELSE sheet

\* deletePaper: the callback of currentSheets.map
PruneSheet(sheet, targetId) ==
    LET keep(p) == ToText(Get(p, "id")) # targetId
    IN  With(sheet, "papers", Arr(SelectSeq(Get(sheet, "papers").v, keep)))

\* the text of DATA_FILE: a collection, or a document that is not an array
ServerTexts ==
    {JsonStringify(StoredCollection(<<2>>, <<Str(<<"7">>), Str(<<"7">>)>>)),
     JsonStringify(StoredCollection(<<1, 1>>, <<Str(<<"7">>), Str(<<"u1">>)>>)),
     JsonStringify(Obj(NoFields))}

\* the item of the local store: none, a collection, or a text that does not
\* parse
LocalItems ==
    {Null, Str(<<"[", "{">>),
     Str(JsonStringify(StoredCollection(<<1>>, <<Str(<<"7">>)>>)))}

InitApp ==
    /\ hasCrypto \in BOOLEAN
    /\ now = 0
    /\ uniqueCounter = 0
    /\ stored = Undef
    /\ sheets = Arr(<<>>)
    /\ issued = <<>>
    /\ ParseIdle
    /\ phase = "loading"
    /\ server \in ServerTexts
    /\ local \in LocalItems
    /\ isInitialized = FALSE
    /\ isOfflineMode = FALSE
    /\ timer = AutoSave(Arr(<<>>), FALSE, FALSE)
    /\ inflight = {}
    /\ edits = 0

\* what fetchData goes by: the answer to GET /api/data when the request
\* succeeds with a 2xx status, else (the catch branch, offline) the item of
\* the local store, if it is there and parses
Source(reachable, doc, item) ==
    IF reachable /\ doc.ok
    THEN [ok |-> TRUE, val |-> doc.val, offline |-> FALSE]
    ELSE [ok |-> Truthy(local) /\ item.ok, val |-> item.val, offline |-> TRUE]

\* Array.isArray(parsedSheets), Array.isArray(parsed)
Obtained(source) == source.ok /\ IsArray(source.val)

\* fetchData from the source on, r being sanitizeData's result
Fetched(source, r) ==
    /\ sheets' = (IF Obtained(source) THEN Arr(r.sheets) ELSE sheets)
    /\ stored' = (IF Obtained(source) THEN source.val ELSE stored)
    /\ uniqueCounter' = (IF Obtained(source) THEN r.st.counter ELSE uniqueCounter)
    /\ issued' = (IF Obtained(source) THEN r.st.calls ELSE issued)
    /\ isOfflineMode' = source.offline
    /\ isInitialized' = TRUE
    /\ timer' = AutoSave(sheets', TRUE, source.offline)
FetchedFrom(source, rnd) ==
    Fetched(source,
            SanitizeData(IF Obtained(source) THEN source.val ELSE Arr(<<>>),
                         uniqueCounter, rnd))

\* the initial load
Load ==
    /\ phase = "loading"
    /\ \E reachable \in BOOLEAN, rnd \in [1..MaxRecords -> RandomPool] :
          FetchedFrom(Source(reachable,
                             JsonParse(IF server = <<>> THEN <<"[", "]">>
                                       ELSE server),
                             JsonParse(IF IsString(local) THEN local.v
                                       ELSE <<>>)),
                      rnd)
    /\ phase' = "ready"
    /\ UNCHANGED <<hasCrypto, now, server, local, inflight, edits>>
    /\ UNCHANGED parseVars

\* the generateId calls of an import as observed: clash when the identifier
\* is one a record of the collection, or an earlier record of the import, has
ImportCalls(papers, used) ==
    [k \in 1..Len(papers) |->
        [id |-> Get(papers[k], "id").v,
         clash |-> \/ Get(papers[k], "id") \in used
                   \/ \E j \in 1..(k - 1) :
                         Get(papers[j], "id") = Get(papers[k], "id")]]

\* handleImport(title, papers), g being its generateId call
Imported(papers, g) ==
    /\ SetAndSave(Arr(Append(sheets.v,
                             Obj(Key("id") :> Str(g.id)
                                 @@ Key("title") :> Str(<<"import">>)
                                 @@ Key("createdAt") :> Num(now)
                                 @@ Key("papers") :> Arr(papers)))))
    /\ uniqueCounter' = g.counter
    /\ issued' = issued \o ImportCalls(papers,
                             {Get(p, "id") : p \in Range(FlatPapers(sheets.v))})

\* the Importer's parseRawJson of a text of two candidates, then
\* handleImport(title, papers); the draw of the group's identifier is the
\* first record's
HandleImport ==
    /\ phase = "ready"
    /\ edits < MaxEdits
    /\ \E rnd \in [1..2 -> RandomPool] :
          Imported(MapPapers(<<CandA, CandB>>, 1, uniqueCounter, rnd).papers,
                   GenerateId(MapPapers(<<CandA, CandB>>, 1, uniqueCounter, rnd).counter,
                              rnd[1]))
    /\ edits' = edits + 1
    /\ UNCHANGED <<hasCrypto, now, stored, phase, server, isInitialized,
                   isOfflineMode>>
    /\ UNCHANGED parseVars

\* a PaperCard's toggle: handleUpdatePaper({...paper, isImportant: !paper.isImportant})
HandleUpdatePaper ==
    /\ phase = "ready"
    /\ edits < MaxEdits
    /\ \E paper \in Range(FlatPapers(sheets.v)) :
          SetSheets(Arr([g \in 1..Len(sheets.v) |->
                           UpdateSheet(sheets.v[g],
                                       With(paper, "isImportant",
                                            Bool(~Truthy(Get(paper, "isImportant")))))]))
    /\ edits' = edits + 1
    /\ UNCHANGED <<hasCrypto, now, uniqueCounter, stored, phase, issued, server,
                   local, isInitialized, isOfflineMode, inflight>>
    /\ UNCHANGED parseVars

\* a PaperCard's delete: deletePaper(paper.id)
DeletePaper ==
    /\ phase = "ready"
    /\ edits < MaxEdits
    /\ \E paper \in Range(FlatPapers(sheets.v)) :
          /\ Truthy(Get(paper, "id"))
          /\ SetSheets(Arr([g \in 1..Len(sheets.v) |->
                              PruneSheet(sheets.v[g], ToText(Get(paper, "id")))]))
    /\ edits' = edits + 1
    /\ UNCHANGED <<hasCrypto, now, uniqueCounter, stored, phase, issued, server,
                   local, isInitialized, isOfflineMode, inflight>>
    /\ UNCHANGED parseVars

\* deleteSheet(id, e), confirmed
DeleteSheet ==
    /\ phase = "ready"
    /\ edits < MaxEdits
    /\ \E sheet \in Range(sheets.v) :
          SetAndSave(LET keep(x) == Get(x, "id") # Get(sheet, "id")
                     IN  Arr(SelectSeq(sheets.v, keep)))
    /\ edits' = edits + 1
    /\ UNCHANGED <<hasCrypto, now, uniqueCounter, stored, phase, issued, server,
                   isInitialized, isOfflineMode>>
    /\ UNCHANGED parseVars

\* the pending timeout fires: saveData(sheets) of the render that set it
TimerFires ==
    /\ \E t \in timer :
          /\ local' = SaveData(t.data, t.offline).local
          /\ inflight' = SaveData(t.data, t.offline).inflight
    /\ timer' = {}
    /\ UNCHANGED <<hasCrypto, now, uniqueCounter, stored, sheets, phase, issued,
                   server, isInitialized, isOfflineMode, edits>>
    /\ UNCHANGED parseVars

\* server.js handles one of the requests in flight, whichever reaches it
\* next: express.json() parses the body, the handler writes it to DATA_FILE
HandlePost ==
    /\ \E body \in inflight :
          /\ server' = JsonStringify(JsonParse(body).val)
          /\ inflight' = inflight \ {body}
    /\ UNCHANGED <<hasCrypto, now, uniqueCounter, stored, sheets, phase, issued,
                   local, isInitialized, isOfflineMode, timer, edits>>
    /\ UNCHANGED parseVars

NextApp ==
    \/ Load
    \/ HandleImport
    \/ HandleUpdatePaper
    \/ DeletePaper
    \/ DeleteSheet
    \/ TimerFires
    \/ HandlePost

SpecApp == InitApp /\ [][NextApp]_vars

-----------------------------------------------------------------------------
(* C21: identifiers stay unique across the collection while it is edited *)

\* the records of the collection in memory, group after group
AppRecords == FlatPapers(sheets.v)

\* C21: in every state the App reaches from a loaded collection by imports,
\* updates, record deletions and group deletions, no record identifier occurs
\* twice across all groups (generateId having returned no identifier that a
\* record already had, the assumption of C1).
C21_IdsStayUnique ==
    (isInitialized /\ NoGeneratedClash) =>
       \A i, j \in 1..Len(AppRecords) :
          i # j => Get(AppRecords[i], "id") # Get(AppRecords[j], "id")

\* a collection loaded with a repaired duplicate, then an import and a
\* deletion: three records in two groups, three identifiers generated so far
C21_Witness ==
    /\ isInitialized
    /\ NoGeneratedClash
    /\ edits = 2
    /\ Len(issued) >= 3
    /\ Len(sheets.v) >= 2
    /\ Len(AppRecords) = 3
    /\ \E i \in 1..Len(AppRecords) : Get(AppRecords[i], "id") = Str(<<"7">>)

-----------------------------------------------------------------------------
(* C22: an update or a deletion touches the addressed record only *)

\* a step of handleUpdatePaper or deletePaper: an edit that neither adds nor
\* removes a group
RecordEdit ==
    /\ edits' = edits + 1
    /\ Len(sheets'.v) = Len(sheets.v)

\* sequence xs without its i-th element
RemoveAt(xs, i) == SubSeq(xs, 1, i - 1) \o SubSeq(xs, i + 1, Len(xs))

\* the collection with the papers of group g set to ps
WithPapers(coll, g, ps) ==
    Arr([coll.v EXCEPT ![g] = With(coll.v[g], "papers", Arr(ps))])

\* record i of group g was replaced by a record of the same identifier, and
\* nothing else changed
ReplacedOne(g, i) ==
    LET old == Get(sheets.v[g], "papers").v
        new == Get(sheets'.v[g], "papers").v
    IN  /\ Len(new) = Len(old)
        /\ new[i] # old[i]
        /\ Get(new[i], "id") = Get(old[i], "id")
        /\ sheets' = WithPapers(sheets, g, [old EXCEPT ![i] = new[i]])

\* record i of group g was removed, and nothing else changed
RemovedOne(g, i) ==
    sheets' = WithPapers(sheets, g, RemoveAt(Get(sheets.v[g], "papers").v, i))

\* C22: a handleUpdatePaper step replaces exactly one record, by one of the
\* same identifier, and a deletePaper step removes exactly one record; all
\* other records, all groups and the order of the records stay as they were
\* (in a loaded, repaired collection, generateId having returned no
\* identifier a record already had).
C22_OnlyTheAddressedRecord ==
    [][(RecordEdit /\ NoGeneratedClash) =>
          \E g \in 1..Len(sheets.v) :
             \E i \in 1..Len(Get(sheets.v[g], "papers").v) :
                ReplacedOne(g, i) \/ RemovedOne(g, i)]_vars

\* of the two records of a repaired group the second was deleted, then the
\* first was marked important
C22_Witness ==
    /\ isInitialized
    /\ NoGeneratedClash
    /\ Len(issued) = 1
    /\ edits = 2
    /\ Len(sheets.v) = 1
    /\ Len(AppRecords) = 1
    /\ Get(AppRecords[1], "id") = Str(<<"7">>)
    /\ Get(AppRecords[1], "isImportant") = Bool(TRUE)

-----------------------------------------------------------------------------
(* C25: nothing is written before the initial load has completed *)

\* C25: while isInitialized is not set no timeout of the auto-save effect is
\* pending and no request is in flight, and no step changes the local store,
\* the server's file or the requests in flight.
C25_NoWriteBeforeLoaded ==
    [][~isInitialized =>
          /\ timer = {}
          /\ inflight = {}
          /\ local' = local
          /\ server' = server
          /\ inflight' = inflight]_vars

\* the load has just completed: the collection is in memory, the server's
\* file is the one it was read from, the auto-save is pending for the first
\* time
C25_Witness ==
    /\ isInitialized
    /\ ~isOfflineMode
    /\ edits = 0
    /\ sheets.v # <<>>
    /\ timer = {[data |-> sheets, offline |-> FALSE]}
    /\ inflight = {}
    /\ server = JsonStringify(stored)
    /\ local = Null

-----------------------------------------------------------------------------
(* C28: what the server holds once every save has been handled *)

\* online, no timeout pending and no request in flight
Quiescent ==
    /\ isInitialized
    /\ ~isOfflineMode
    /\ timer = {}
    /\ inflight = {}

\* C28: once no save is pending and every request has been handled, the
\* server's file holds the collection in memory.
C28_ServerConverges == Quiescent => JsonParse(server).val = sheets

\* every request has been handled and the server's file holds the collection
\* as it was loaded, not the one in memory, which has a group more
C28_Witness ==
    /\ Quiescent
    /\ edits = 1
    /\ JsonParse(server).val # sheets
    /\ Len(JsonParse(server).val.v) + 1 = Len(sheets.v)
    /\ local = Str(JsonStringify(sheets))

-----------------------------------------------------------------------------
(* C29: a load that obtains no collection *)

\* the load is over and handed no collection to sanitizeData
NoCollectionObtained == isInitialized /\ stored = Undef

\* the empty collection as it is written to a store
EmptyText == JsonStringify(Arr(<<>>))

\* C29: after a load that obtained no collection, and before any edit, no
\* step puts the empty collection in the place of other content of the local
\* store or of the server's file.
C29_LoadKeepsStored ==
    [][(NoCollectionObtained /\ edits' = 0) =>
          /\ ~(local # Null /\ local # Str(EmptyText) /\ local' = Str(EmptyText))
          /\ ~(server # EmptyText /\ server' = EmptyText)]_vars

\* the server answered {} while the local store held a collection; no edit
\* was made, and both now hold the empty collection
C29_Witness ==
    /\ NoCollectionObtained
    /\ ~isOfflineMode
    /\ edits = 0
    /\ timer = {}
    /\ inflight = {}
    /\ sheets = Arr(<<>>)
    /\ local = Str(EmptyText)
    /\ server = EmptyText

====
